---- MODULE Spec2Model ----
(***************************************************************************)
(* FluxStore CSV ingestion pipeline: the queue client (RabbitMQService),   *)
(* the rate cache (ExchangeRatesService), and the import runs of           *)
(* ProductsService (parse/validate, enrich, batch persistence, queue or    *)
(* synchronous orchestration).                                             *)
(*                                                                         *)
(* Text cells are sequences of one-character strings, so that trimming,    *)
(* replace, split, parseFloat and parseInt are computed character by       *)
(* character as the JavaScript does.                                       *)
(***************************************************************************)
EXTENDS Integers, Sequences, FiniteSets, TLC

(***************************************************************************)
(* Bounds of the model (not program constants).                            *)
(***************************************************************************)
\* rows of data in the input files of one behaviour, all runs together
MaxRows == 3
\* stand-in for the batch size of processProductsInBatches (1000 in the source)
batchSize == 2
\* snapshots the rate provider hands out
MaxSnaps == 2
\* connections the client opens in one behaviour
MaxConns == 2
\* connections the client opens in one behaviour of the orchestrator
MaxUploadConns == 1
\* connections the client opens in one behaviour of the client alone
MaxReconnects == 3
\* connections and channels the environment closes in one behaviour
MaxLosses == 1
\* calls of the queue client's and the orchestrator's entry points
MaxCalls == 2
\* calls of the orchestrator's entry points
MaxUploads == 1
\* messages sent to the queue the consumer reads
MaxSends == 1
\* deliveries of one message
MaxDeliveries == 5
\* rows of data in the files handed to the orchestrator, all calls together
MaxUploadRows == 1
\* import runs started in one behaviour
MaxRuns == 2
\* rows of data in the input files of one behaviour when runs may overlap
MaxConcRows == 2
\* the largest rate in a provider's answer
MaxRate == 1
\* messages in the queue when the service starts
MaxBacklog == 11
\* deliveries of one message whose file shows late or never
MaxWaitDeliveries == 1
\* products in the collection when it is queried
MaxDocs == 3
\* results of product queries that are in the cache at once
MaxCached == 1

\* rows of data in the input files of one behaviour that exercises the rules
MaxValRows == 2
\* rows in one chunk of a file stream (the stream's highWaterMark)
ChunkRows == 2

(***************************************************************************)
(* State                                                                   *)
(***************************************************************************)
VARIABLES
    cache,      \* the value under the key 'exchange_rates', or Undefined
    snapCount,  \* answers the rate provider has given so far
    catalog,    \* the products collection
    run,        \* the import runs (one call of processCSVFile... each)
    runCount,   \* runs started so far; the next run's instance number
    rowsUsed,   \* data rows handed to the runs started so far
    \* the broker and the network
    brokerUp,   \* whether amqp.connect can succeed
    openConns,  \* the connections that are open
    openChans,  \* the channels that are open (a channel bears its connection's number)
    connCount,  \* connections opened so far
    lossCount,  \* connections and channels the environment has closed so far
    \* RabbitMQService
    connection, \* this.connection: 0 is null
    channel,    \* this.channel: 0 is null
    isConnected,
    connectionPromise, \* "null", "pending", "resolved" or "rejected"
    isConnecting,
    reconnectAttempts,
    timers,     \* reconnect timers set and not yet fired
    tries,      \* connects started by a reconnect timer since the last connect that succeeded
    dc,         \* where _doConnect stands: "none", "connect" or "channel"
    \* the queue csv_processing_queue
    msgs,       \* the messages published
    consumers,  \* the channels with a consumer
    fsFiles,    \* the paths at which a file exists
    csvResults, \* the summaries stored under the keys csv_result_<time>
    \* the product queries
    productsCache, \* the results stored under the keys products:<filters>:<sort>:<page>:<limit>
    response,   \* the last product query and its answer
    \* callers of the queue client and of the pipeline
    call

(***************************************************************************)
(* Text helpers                                                            *)
(***************************************************************************)
Digits == <<"0", "1", "2", "3", "4", "5", "6", "7", "8", "9">>

IsDigit(c) == \E i \in 1..10 : Digits[i] = c

DigitVal(c) == (CHOOSE i \in 1..10 : Digits[i] = c) - 1

IsSpace(c) == c = " "

RECURSIVE TrimLeft(_)
TrimLeft(s) == IF s # <<>> /\ IsSpace(Head(s)) THEN TrimLeft(Tail(s)) ELSE s

RECURSIVE TrimRight(_)
TrimRight(s) ==
    IF s # <<>> /\ IsSpace(s[Len(s)]) THEN TrimRight(SubSeq(s, 1, Len(s) - 1)) ELSE s

\* String.prototype.trim
Trim(s) == TrimRight(TrimLeft(s))

\* String.prototype.replace(c, '') with a string pattern: the FIRST occurrence only
RECURSIVE ReplaceFirst(_, _)
ReplaceFirst(s, c) ==
    IF s = <<>> THEN <<>>
    ELSE IF Head(s) = c THEN Tail(s)
    ELSE <<Head(s)>> \o ReplaceFirst(Tail(s), c)

\* String.prototype.split(c)
RECURSIVE SplitAcc(_, _, _)
SplitAcc(s, c, cur) ==
    IF s = <<>> THEN <<cur>>
    ELSE IF Head(s) = c THEN <<cur>> \o SplitAcc(Tail(s), c, <<>>)
    ELSE SplitAcc(Tail(s), c, Append(cur, Head(s)))

Split(s, c) == SplitAcc(s, c, <<>>)

\* the longest prefix of decimal digits
RECURSIVE DigitPrefix(_)
DigitPrefix(s) ==
    IF s # <<>> /\ IsDigit(Head(s)) THEN <<Head(s)>> \o DigitPrefix(Tail(s)) ELSE <<>>

RECURSIVE DigitsToNat(_, _)
DigitsToNat(s, acc) ==
    IF s = <<>> THEN acc ELSE DigitsToNat(Tail(s), acc * 10 + DigitVal(Head(s)))

RECURSIVE StripTrailingZeros(_)
StripTrailingZeros(s) ==
    IF s # <<>> /\ s[Len(s)] = "0" THEN StripTrailingZeros(SubSeq(s, 1, Len(s) - 1)) ELSE s

NaN == [nan |-> TRUE]

IsNaN(v) == v.nan

\* parseInt(s) (radix 10): leading white space, an optional sign, then the
\* longest run of digits; NaN when there is no digit.
ParseInt(s) ==
    LET t    == TrimLeft(s)
        neg  == t # <<>> /\ Head(t) = "-"
        body == IF t # <<>> /\ Head(t) \in {"-", "+"} THEN Tail(t) ELSE t
        ds   == DigitPrefix(body)
    IN  IF ds = <<>> THEN NaN
        ELSE [nan |-> FALSE,
              val |-> IF neg THEN 0 - DigitsToNat(ds, 0) ELSE DigitsToNat(ds, 0)]

\* parseFloat(s): leading white space, an optional sign, digits, an optional
\* point and digits; whatever follows is ignored; NaN when there is no digit.
\* The value is kept exactly as sign, integer part and fraction digits.
\* (Exponents and "Infinity" do not occur in the inputs of the model.)
ParseFloat(s) ==
    LET t     == TrimLeft(s)
        neg   == t # <<>> /\ Head(t) = "-"
        body  == IF t # <<>> /\ Head(t) \in {"-", "+"} THEN Tail(t) ELSE t
        ip    == DigitPrefix(body)
        rest  == SubSeq(body, Len(ip) + 1, Len(body))
        fp    == IF rest # <<>> /\ Head(rest) = "." THEN DigitPrefix(Tail(rest)) ELSE <<>>
    IN  IF ip = <<>> /\ fp = <<>> THEN NaN
        ELSE [nan |-> FALSE, neg |-> neg, int |-> DigitsToNat(ip, 0),
              frac |-> StripTrailingZeros(fp)]

(***************************************************************************)
(* new Date(year, monthIndex, day) in local time, as year/month/day        *)
(***************************************************************************)
IsLeap(y) == (y % 4 = 0 /\ y % 100 # 0) \/ y % 400 = 0

\* m is a month index 0..11
DaysInMonth(y, m) ==
    IF m = 1 THEN (IF IsLeap(y) THEN 29 ELSE 28)
    ELSE IF m \in {3, 5, 8, 10} THEN 30 ELSE 31

RECURSIVE DayCarry(_, _, _)
DayCarry(y, m, d) ==
    IF d < 1 THEN
        LET pm == IF m = 0 THEN 11 ELSE m - 1
            py == IF m = 0 THEN y - 1 ELSE y
        IN  DayCarry(py, pm, d + DaysInMonth(py, pm))
    ELSE IF d > DaysInMonth(y, m) THEN
        LET nm == IF m = 11 THEN 0 ELSE m + 1
            ny == IF m = 11 THEN y + 1 ELSE y
        IN  DayCarry(ny, nm, d - DaysInMonth(y, m))
    ELSE [year |-> y, month |-> m + 1, day |-> d]

\* The Date constructor: a year 0..99 means 1900 + year; month and day
\* outside their range carry into the neighbouring month or year.
NewDate(year, monthIndex, day) ==
    LET y0 == IF year >= 0 /\ year <= 99 THEN 1900 + year ELSE year
    IN  DayCarry(y0 + (monthIndex \div 12), monthIndex % 12, day)

GetFullYear(date) == date.year


(***************************************************************************)
(* Input rows.  A file is a sequence of indices into RowTable; the cells   *)
(* are the raw cells of one line after the header line (skipLines: 1).     *)
(***************************************************************************)
C_name == <<"n", "a", "m", "e">>
C_price == <<"p", "r", "i", "c", "e">>
C_expiration == <<"e", "x", "p", "i", "r", "a", "t", "i", "o", "n">>

RowTable ==
    << \* 1: a valid row, cells padded with blanks
       [name |-> <<" ", "A">>, price |-> <<"$", "1", "0", ".", "5", "0">>,
        expiration |-> <<"1", "2", "/", "3", "1", "/", "2", "0", "2", "4">>],
       \* 2: empty name
       [name |-> <<>>, price |-> <<"5">>,
        expiration |-> <<"0", "1", "/", "0", "1", "/", "2", "0", "2", "5">>],
       \* 3: a data line that repeats the header line
       [name |-> C_name, price |-> C_price, expiration |-> C_expiration],
       \* 4: unparsable price
       [name |-> <<"P">>, price |-> <<"a", "b", "c">>,
        expiration |-> <<"0", "2", "/", "0", "2", "/", "2", "0", "2", "5">>],
       \* 5: impossible date, 30th of February
       [name |-> <<"F">>, price |-> <<"1">>,
        expiration |-> <<"0", "2", "/", "3", "0", "/", "2", "0", "2", "4">>],
       \* 6: date with two parts only
       [name |-> <<"G">>, price |-> <<"2">>,
        expiration |-> <<"0", "2", "/", "2", "0", "2", "4">>],
       \* 7: date whose month is not a number
       [name |-> <<"H">>, price |-> <<"3">>,
        expiration |-> <<"x", "/", "0", "1", "/", "2", "0", "2", "4">>],
       \* 8: leap day
       [name |-> <<"L">>, price |-> <<"4">>,
        expiration |-> <<"0", "2", "/", "2", "9", "/", "2", "0", "2", "4">>],
       \* 9: 29th of February of a year that is not a leap year
       [name |-> <<"N">>, price |-> <<"5">>,
        expiration |-> <<"0", "2", "/", "2", "9", "/", "2", "0", "2", "3">>],
       \* 10: price with a currency symbol and one separator
       [name |-> <<"S">>, price |-> <<"$", "1", ",", "2", "3", "4", ".", "5", "6">>,
        expiration |-> <<"0", "1", "/", "1", "5", "/", "2", "0", "2", "5">>],
       \* 11: price with a currency symbol and two separators
       [name |-> <<"T">>, price |-> <<"$", "1", ",", "2", "3", "4", ",", "5", "6", "7", ".", "8", "9">>,
        expiration |-> <<"0", "1", "/", "1", "5", "/", "2", "0", "2", "5">>],
       \* 12: expiration of blanks only
       [name |-> <<"B">>, price |-> <<"6">>,
        expiration |-> <<" ", " ">>],
       \* 13: month 13
       [name |-> <<"M">>, price |-> <<"7">>,
        expiration |-> <<"1", "3", "/", "0", "1", "/", "2", "0", "2", "4">>]
    >>

\* rows the import runs draw their files from
RunRows == {1, 2, 3}

\* csv-parser with mapValues: value.trim()
CsvData(rowId) ==
    [name |-> Trim(RowTable[rowId].name),
     price |-> Trim(RowTable[rowId].price),
     expiration |-> Trim(RowTable[rowId].expiration)]

RECURSIVE SeqsUpTo(_, _)
SeqsUpTo(S, n) ==
    IF n = 0 THEN {<<>>}
    ELSE LET prev == SeqsUpTo(S, n - 1)
         IN  prev \cup {Append(q, x) : q \in {p \in prev : Len(p) = n - 1}, x \in S}

Files == SeqsUpTo(RunRows, MaxRows)

\* the files of overlapping runs: valid rows and rows with an empty name
ConcFiles == SeqsUpTo({1, 2}, MaxConcRows)

\* rows the runs that exercise the rules of a row draw their files from: a
\* valid row, the repeat of the header line, a price that is no number, the
\* 30th of February, a price with two separators, an expiration of blanks
ValRows == {1, 3, 4, 5, 11, 12}

ValFiles == SeqsUpTo(ValRows, MaxValRows)

\* the files uploaded through the orchestrator
UploadFiles == SeqsUpTo({1}, MaxUploadRows)

(***************************************************************************)
(* Exchange rates (ExchangeRatesService)                                   *)
(***************************************************************************)
Currencies == {"EUR", "BRL", "CHF"}

selectedCurrencies == {"EUR", "GBP", "JPY", "CAD", "AUD", "BRL"}

\* the provider's answer at its n-th call
ProviderRates(n) == [c \in Currencies |-> IF c = "CHF" THEN 9 ELSE n]

\* the rate tables a provider can answer with: some of the currencies, each
\* with a rate from 0 to MaxRate
RateTables ==
    UNION {[S -> 0..MaxRate] : S \in SUBSET Currencies}

\* getSelectedCurrencies: keeps the allow-listed currencies whose rate is truthy
getSelectedCurrencies(rates) ==
    [c \in {k \in DOMAIN rates : k \in selectedCurrencies /\ rates[k] # 0} |-> rates[c]]

Undefined == [undefined |-> TRUE]

\* the key's time to live in getExchangeRates, in seconds
cacheTtl == 3600

\* redisService.set(key, value, expiration): the entry setex leaves under the key
setex(value, expiration) ==
    [date |-> value.date, rates |-> value.rates, ttl |-> expiration]

\* what getExchangeRates returns from a value read out of the cache
Cached(entry) == [date |-> entry.date, rates |-> entry.rates]

(***************************************************************************)
(* The 'data' handler of processCSVFileWithMetrics and of                  *)
(* processCSVFileFromBuffer (the two are line for line the same).          *)
(***************************************************************************)
RowError(s, data, msg) ==
    [s EXCEPT !.errors = Append(@, [line |-> s.lineCount, error |-> msg, row |-> data])]

\* the header test at the top of the handler: the row is dropped silently
IsHeaderRow(data) ==
    data.name = C_name /\ data.price = C_price /\ data.expiration = C_expiration

\* a variant of the empty-field test that looks at the name only
hasEmptyFields_nameOnly(data) == data.name = <<>>

\* const hasEmptyFields = !data.name || !data.price || !data.expiration
hasEmptyFields(data) == data.name = <<>> \/ data.price = <<>> \/ data.expiration = <<>>

PriceOf(data) == ParseFloat(Trim(ReplaceFirst(ReplaceFirst(data.price, "$"), ",")))

\* a variant of ProductOf that reads the shared cache when the row is handled
ProductOf_readsCache(s, data, price, expiration) ==
    [name |-> Trim(data.name), price |-> price, expiration |-> expiration,
     exchangeRates |-> IF cache = Undefined THEN Undefined
                       ELSE [date |-> cache.date,
                             rates |-> getSelectedCurrencies(cache.rates)],
     inst |-> s.inst, line |-> s.lineCount]

\* const product: ProductDTO = { name, price, expiration, exchangeRates };
\* inst and line say which run and which line the product comes from
ProductOf(s, data, price, expiration) ==
    [name |-> Trim(data.name), price |-> price, expiration |-> expiration,
     exchangeRates |-> s.exchangeRates,
     inst |-> s.inst, line |-> s.lineCount]

\* a variant of the handler that rejects a row whose name another run has
\* already stored in the collection
ValidateRow_skipsKnown(s, data) ==
    IF IsHeaderRow(data) THEN s
    ELSE IF hasEmptyFields(data) THEN RowError(s, data, "Missing required fields")
    ELSE IF \E p \in catalog : p.name = Trim(data.name) /\ p.inst # s.inst
    THEN RowError(s, data, "Duplicate")
    ELSE LET dateParts == Split(data.expiration, "/")
         IN  IF IsNaN(PriceOf(data)) \/ Len(dateParts) # 3
             THEN RowError(s, data, "Invalid")
             ELSE [s EXCEPT
                     !.results = Append(@, ProductOf(s, data, PriceOf(data),
                                     NewDate(ParseInt(dateParts[3]).val,
                                             ParseInt(dateParts[1]).val - 1,
                                             ParseInt(dateParts[2]).val))),
                     !.successCount = @ + 1]

\* s is the run with lineCount already incremented
ValidateRow(s, data) ==
    IF IsHeaderRow(data) THEN s
    ELSE IF hasEmptyFields(data) THEN RowError(s, data, "Missing required fields")
    ELSE LET price == PriceOf(data)
             dateParts == Split(data.expiration, "/")
         IN  IF IsNaN(price) THEN RowError(s, data, "Invalid price format")
             ELSE IF Len(dateParts) # 3 THEN RowError(s, data, "Invalid date format")
             ELSE LET month == ParseInt(dateParts[1])
                      day   == ParseInt(dateParts[2])
                      year  == ParseInt(dateParts[3])
                  IN  IF IsNaN(month) \/ IsNaN(day) \/ IsNaN(year)
                      THEN RowError(s, data, "Invalid date numbers")
                      ELSE LET expiration == NewDate(year.val, month.val - 1, day.val)
                           IN  IF GetFullYear(expiration) # year.val
                               THEN RowError(s, data, "Invalid date")
                               ELSE [s EXCEPT
                                       !.results = Append(@,
                                           ProductOf(s, data, price, expiration)),
                                       !.successCount = @ + 1]

DataHandler(s, data) == ValidateRow([s EXCEPT !.lineCount = @ + 1], data)


(***************************************************************************)
(* Import runs                                                             *)
(***************************************************************************)
pipeVars == <<cache, snapCount, catalog, run, runCount, rowsUsed>>

envVars == <<brokerUp, openConns, openChans, connCount, lossCount>>

cliVars == <<connection, channel, isConnected, connectionPromise, isConnecting,
             reconnectAttempts, timers, tries, dc>>

mqVars == <<msgs, consumers, fsFiles, csvResults>>

qryVars == <<productsCache, response>>

vars == <<pipeVars, envVars, cliVars, mqVars, qryVars, call>>

queueVars == <<envVars, cliVars, mqVars, qryVars, call>>

RunIds == {1, 2}

\* a product that was in the collection before any run of the behaviour
OldProduct ==
    [name |-> <<"O">>, price |-> [nan |-> FALSE, neg |-> FALSE, int |-> 1, frac |-> <<>>],
     expiration |-> [year |-> 2020, month |-> 1, day |-> 1],
     exchangeRates |-> [date |-> 0, rates |-> getSelectedCurrencies(ProviderRates(0))],
     inst |-> 0, line |-> 1]

IdleRun ==
    [pc |-> "idle", file |-> <<>>, pos |-> 0, lineCount |-> 0,
     successCount |-> 0, results |-> <<>>, errors |-> <<>>,
     exchangeRates |-> Undefined, ratesData |-> Undefined, i |-> 0,
     batchLog |-> <<>>, inst |-> 0, alone |-> TRUE, catAtEnd |-> {}, error |-> "none",
     providerFailed |-> FALSE, timer |-> "none"]

Active(s) == s.pc \notin {"idle", "resolved", "rejected"}

Settled(s) == s.pc \in {"resolved", "rejected"}

Range(q) == {q[k] : k \in DOMAIN q}

Min(a, b) == IF a < b THEN a ELSE b

\* a new run takes the lowest slot that holds no run in progress
FreeSlot(r) == ~Active(run[r]) /\ \A q \in 1..(r - 1) : Active(run[q])

(***************************************************************************)
(* Steps of one run                                                        *)
(***************************************************************************)
\* resolve({ successCount, errors })
Resolve(s, cat) == [s EXCEPT !.pc = "resolved", !.catAtEnd = cat]

\* reject(error)
Reject(s, cat, msg) == [s EXCEPT !.pc = "rejected", !.catAtEnd = cat, !.error = msg]

\* the start of a run: the promise executor up to the await of getExchangeRates
BeginRun(r, f, rowBudget, runBudget) ==
    /\ FreeSlot(r)
    /\ runCount < runBudget
    /\ rowsUsed + Len(f) <= rowBudget
    /\ runCount' = runCount + 1
    /\ rowsUsed' = rowsUsed + Len(f)
    /\ LET others == \E q \in DOMAIN run : Active(run[q])
       IN  run' = [q \in DOMAIN run |->
                     IF q = r
                     THEN [IdleRun EXCEPT !.pc = "ratesGet", !.file = f,
                                          !.inst = runCount + 1, !.alone = ~others]
                     ELSE IF Active(run[q]) THEN [run[q] EXCEPT !.alone = FALSE]
                     ELSE run[q]]

\* a variant of WithRates that goes on to clear the collection before the
\* stream is read
WithRates_clearsFirst(s, ratesData) ==
    [s EXCEPT !.exchangeRates =
                  [date |-> ratesData.date, rates |-> getSelectedCurrencies(ratesData.rates)],
              !.ratesData = Undefined,
              !.pc = "deleteMany"]

\* exchangeRates = { date, rates: getSelectedCurrencies(ratesData.rates) }
WithRates(s, ratesData) ==
    [s EXCEPT !.exchangeRates =
                  [date |-> ratesData.date, rates |-> getSelectedCurrencies(ratesData.rates)],
              !.ratesData = Undefined,
              !.pc = "stream", !.timer = "set"]

\* a variant of FetchFailed that logs the error and goes on without rates
FetchFailed_goesOn(s, cat) == [s EXCEPT !.pc = "stream"]

\* the catch block of the rates fetch: reject(error); return
FetchFailed(s, cat) == Reject(s, cat, "Failed to fetch exchange rates")

\* a variant of RatesCacheGet that asks the provider whatever the cache holds
RatesCacheGet_refetch(r) ==
    /\ run[r].pc = "ratesGet"
    /\ run' = [run EXCEPT ![r] = [@ EXCEPT !.pc = "ratesHttp"]]
    /\ UNCHANGED <<cache, snapCount, catalog, runCount, rowsUsed>>

\* getExchangeRates: the cache lookup
RatesCacheGet(r) ==
    /\ run[r].pc = "ratesGet"
    /\ run' = [run EXCEPT ![r] =
                 IF cache # Undefined THEN WithRates(@, Cached(cache))
                 ELSE [@ EXCEPT !.pc = "ratesHttp"]]
    /\ UNCHANGED <<cache, snapCount, catalog, runCount, rowsUsed>>

\* getExchangeRates: the provider answers with response.data.rates = rates
RatesHttpAnswers(r, rates) ==
    /\ run[r].pc = "ratesHttp"
    /\ snapCount < MaxSnaps
    /\ snapCount' = snapCount + 1
    /\ run' = [run EXCEPT ![r] =
                 [@ EXCEPT !.pc = "ratesSet",
                           !.ratesData = [date |-> snapCount + 1, rates |-> rates]]]
    /\ UNCHANGED <<cache, catalog, runCount, rowsUsed>>

\* getExchangeRates: the provider answers
RatesHttpOk(r) == RatesHttpAnswers(r, ProviderRates(snapCount + 1))

\* a variant of RatesHttpFail that leaves an empty snapshot under the key
RatesHttpFail_cachesEmpty(r) ==
    /\ run[r].pc = "ratesHttp"
    /\ run' = [run EXCEPT ![r] = FetchFailed([@ EXCEPT !.providerFailed = TRUE], catalog)]
    /\ cache' = setex([date |-> 0, rates |-> ProviderRates(0)], cacheTtl)
    /\ UNCHANGED <<snapCount, catalog, runCount, rowsUsed>>

\* getExchangeRates: the provider call fails
RatesHttpFail(r) ==
    /\ run[r].pc = "ratesHttp"
    /\ run' = [run EXCEPT ![r] = FetchFailed([@ EXCEPT !.providerFailed = TRUE], catalog)]
    /\ UNCHANGED <<cache, snapCount, catalog, runCount, rowsUsed>>

\* getExchangeRates: redisService.set(cacheKey, ..., 3600), then return ratesData
RatesCacheSet(r) ==
    /\ run[r].pc = "ratesSet"
    /\ cache' = setex(run[r].ratesData, cacheTtl)
    /\ run' = [run EXCEPT ![r] = WithRates(@, run[r].ratesData)]
    /\ UNCHANGED <<snapCount, catalog, runCount, rowsUsed>>

\* the cached snapshot's TTL runs out
CacheExpire ==
    /\ cache # Undefined
    /\ cache' = Undefined
    /\ UNCHANGED <<snapCount, catalog, run, runCount, rowsUsed>>

\* the stream hands the next line to the 'data' handler
StreamData(r) ==
    /\ run[r].pc = "stream"
    /\ run[r].pos < Len(run[r].file)
    /\ run' = [run EXCEPT ![r] =
                 [DataHandler(@, CsvData(@.file[@.pos + 1])) EXCEPT !.pos = @ + 1]]
    /\ UNCHANGED <<cache, snapCount, catalog, runCount, rowsUsed>>

\* stream.destroyed: a stream is destroyed once it has emitted 'end' or
\* 'error' (autoDestroy), or by destroy()
Destroyed(s) == s.pc # "stream"

\* a variant of the timer's callback that does not test stream.destroyed
TimeoutFires_untested(r) ==
    /\ run[r].timer = "set"
    /\ run' = [run EXCEPT ![r] = Reject([@ EXCEPT !.timer = "fired"], catalog,
                                        "CSV processing timeout")]
    /\ UNCHANGED <<cache, snapCount, catalog, runCount, rowsUsed>>

\* the callback of setTimeout(..., 300000), set when the stream is created
\* and never cleared: a stream not yet destroyed is destroyed and the run is
\* rejected, so that no 'data' and no 'end' come after it
TimeoutFires(r) ==
    /\ run[r].timer = "set"
    /\ run' = [run EXCEPT ![r] =
                 IF Destroyed(@) THEN [@ EXCEPT !.timer = "fired"]
                 ELSE Reject([@ EXCEPT !.timer = "fired"], catalog,
                             "CSV processing timeout")]
    /\ UNCHANGED <<cache, snapCount, catalog, runCount, rowsUsed>>

\* the stream emits 'error': the run is rejected and no 'end' comes
StreamFails(r, msg) ==
    /\ run[r].pc = "stream"
    /\ run' = [run EXCEPT ![r] = Reject(@, catalog, msg)]
    /\ UNCHANGED <<cache, snapCount, catalog, runCount, rowsUsed>>

\* a variant of the 'end' handler that starts the first insert without a
\* deleteMany before it
EndHandler_insertsFirst(s, cat) ==
    IF Len(s.results) > 0 THEN [s EXCEPT !.pc = "insertMany", !.i = 0] ELSE Resolve(s, cat)

\* the 'end' handler up to its first await
EndHandler(s, cat) ==
    IF Len(s.results) > 0 THEN [s EXCEPT !.pc = "deleteMany"] ELSE Resolve(s, cat)

StreamEnd(r) ==
    /\ run[r].pc = "stream"
    /\ run[r].pos = Len(run[r].file)
    /\ run' = [run EXCEPT ![r] = EndHandler(@, catalog)]
    /\ UNCHANGED <<cache, snapCount, catalog, runCount, rowsUsed>>

\* a variant of the slice that takes one record more
BatchOf_overlaps(products, i) ==
    SubSeq(products, i + 1, Min(i + batchSize + 1, Len(products)))

\* products.slice(i, i + batchSize)
BatchOf(products, i) == SubSeq(products, i + 1, Min(i + batchSize, Len(products)))

\* the for loop of processProductsInBatches: its test, and the return to the
\* 'end' handler, which resolves
BatchLoop(s, cat) ==
    IF s.i < Len(s.results) THEN [s EXCEPT !.pc = "insertMany"] ELSE Resolve(s, cat)

\* a variant of DeleteManyOk that leaves the collection as it is
DeleteManyOk_keeps(r) ==
    /\ run[r].pc = "deleteMany"
    /\ run' = [run EXCEPT ![r] = BatchLoop([@ EXCEPT !.i = 0], catalog)]
    /\ UNCHANGED <<cache, snapCount, catalog, runCount, rowsUsed>>

\* processProductsInBatches: deleteMany({}) succeeds
DeleteManyOk(r) ==
    /\ run[r].pc = "deleteMany"
    /\ catalog' = {}
    /\ run' = [run EXCEPT ![r] = BatchLoop([@ EXCEPT !.i = 0], {})]
    /\ UNCHANGED <<cache, snapCount, runCount, rowsUsed>>

\* processProductsInBatches: deleteMany({}) fails; the outer catch rethrows
DeleteManyFail(r) ==
    /\ run[r].pc = "deleteMany"
    /\ run' = [run EXCEPT ![r] = Reject(@, catalog, "deleteMany failed")]
    /\ UNCHANGED <<cache, snapCount, catalog, runCount, rowsUsed>>

\* a variant of AfterBatch that rethrows the batch error instead of going on
AfterBatch_rethrows(s, cat, inserted, failed) ==
    IF failed
    THEN Reject([s EXCEPT !.batchLog = Append(@, [batchNumber |-> (s.i \div batchSize) + 1,
                                                  size |-> Len(BatchOf(s.results, s.i)),
                                                  inserted |-> inserted,
                                                  failed |-> failed])],
                cat, "batch failed")
    ELSE BatchLoop([s EXCEPT !.batchLog = Append(@, [batchNumber |-> (s.i \div batchSize) + 1,
                                                     size |-> Len(BatchOf(s.results, s.i)),
                                                     inserted |-> inserted,
                                                     failed |-> failed]),
                             !.i = @ + batchSize], cat)

\* the end of one pass of the loop body, after the insert or its catch block
AfterBatch(s, cat, inserted, failed) ==
    BatchLoop([s EXCEPT !.batchLog = Append(@, [batchNumber |-> (s.i \div batchSize) + 1,
                                                 size |-> Len(BatchOf(s.results, s.i)),
                                                 inserted |-> inserted,
                                                 failed |-> failed]),
                        !.i = @ + batchSize], cat)

\* insertMany(batch, { ordered: false }) succeeds
InsertManyOk(r) ==
    /\ run[r].pc = "insertMany"
    /\ LET batch == BatchOf(run[r].results, run[r].i)
           cat   == catalog \cup Range(batch)
       IN  /\ catalog' = cat
           /\ run' = [run EXCEPT ![r] = AfterBatch(@, cat, Len(batch), FALSE)]
    /\ UNCHANGED <<cache, snapCount, runCount, rowsUsed>>

\* insertMany(batch, { ordered: false }) throws: with unordered writes any
\* part of the batch may have been written
InsertManyFail(r) ==
    /\ run[r].pc = "insertMany"
    /\ \E written \in SUBSET Range(BatchOf(run[r].results, run[r].i)) :
         LET cat == catalog \cup written
         IN  /\ catalog' = cat
             /\ run' = [run EXCEPT ![r] = AfterBatch(@, cat, Cardinality(written), TRUE)]
    /\ UNCHANGED <<cache, snapCount, runCount, rowsUsed>>

RunStep(r) ==
    \/ RatesCacheGet(r)
    \/ RatesHttpOk(r)
    \/ RatesHttpFail(r)
    \/ RatesCacheSet(r)
    \/ StreamData(r)
    \/ StreamEnd(r)
    \/ DeleteManyOk(r)
    \/ DeleteManyFail(r)
    \/ InsertManyOk(r)
    \/ InsertManyFail(r)

(***************************************************************************)
(* Product queries (ProductsService.findAll, ProductsController.getProducts) *)
(***************************************************************************)
\* the page numbers and the limits a query is made with
Pages == {0, 1, 2}

Limits == {0, 2, 500, 1001}

\* findAll: Math.min(limit, 1000)
findAllMaxLimit == 1000

\* getProducts: Math.min(limit, 100)
getProductsMaxLimit == 100

Max(a, b) == IF a > b THEN a ELSE b

NoResponse == [via |-> "none"]

\* the documents a query with skip and limit returns out of total, as a count
PageSize(total, skip, limit) == Min(limit, Max(0, total - skip))

\* findAll past the cache: query.skip((safePage - 1) * safeLimit).limit(safeLimit)
Query(page, limit) ==
    LET safePage == Max(1, page)
        safeLimit == Max(1, Min(limit, findAllMaxLimit))
        skip == (safePage - 1) * safeLimit
        total == Cardinality(catalog)
    IN  [skip |-> skip, limit |-> safeLimit, total |-> total,
         size |-> PageSize(total, skip, safeLimit)]

\* findAll(filters, sort, page, limit), for the request req: the result under
\* the cache key when there is one, else the query, whose result is cached
findAll(page, limit, req) ==
    LET hits == {e \in productsCache : e.page = page /\ e.limit = limit}
    IN  IF hits # {}
        THEN /\ response' = [via |-> req.via, page |-> req.page, limit |-> req.limit,
                             cached |-> TRUE, result |-> (CHOOSE e \in hits : TRUE).result]
             /\ UNCHANGED productsCache
        ELSE /\ Cardinality(productsCache) < MaxCached
             /\ response' = [via |-> req.via, page |-> req.page, limit |-> req.limit,
                             cached |-> FALSE, result |-> Query(page, limit)]
             /\ productsCache' = productsCache \cup
                    {[page |-> page, limit |-> limit, result |-> Query(page, limit)]}

\* GET /products?page=..&limit=..
getProducts(page, limit) ==
    /\ findAll(Max(1, page), Max(1, Min(limit, getProductsMaxLimit)),
               [via |-> "getProducts", page |-> page, limit |-> limit])
    /\ UNCHANGED <<pipeVars, envVars, cliVars, mqVars, call>>

\* findAll called by another caller than the controller
findAllCalled(page, limit) ==
    /\ findAll(page, limit, [via |-> "findAll", page |-> page, limit |-> limit])
    /\ UNCHANGED <<pipeVars, envVars, cliVars, mqVars, call>>

\* a cached result's time to live (15 s) runs out
ProductsCacheExpire ==
    /\ \E e \in productsCache : productsCache' = productsCache \ {e}
    /\ UNCHANGED <<response, pipeVars, envVars, cliVars, mqVars, call>>

(***************************************************************************)
(* The queue client (RabbitMQService)                                      *)
(***************************************************************************)
maxReconnectAttempts == 5

reconnectDelay == 5000

\* the consumer's test: retryCount <= 3
xMaxRetries == 3

\* the handler's wait for the file: maxRetries = 5
maxRetries == 5

CallIds == 1..MaxCalls

UploadIds == 1..MaxUploads

SendIds == 1..MaxSends

\* the highest number of a call
LastCall == CHOOSE n \in {MaxCalls, MaxUploads, MaxSends} :
                \A k \in {MaxCalls, MaxUploads, MaxSends} : k <= n

\* call 0 is the consumer's initialisation, started by the constructor
InitId == 0

\* the path of processCSVFromFile: test/load/data/products-200000.csv
LoadPath == 0

\* the content of the file at LoadPath
LoadFile == <<1>>

\* a path at which there is no file
NoFilePath == 9

\* the filePath of a message that has none, or an empty one: !filePath holds
EmptyPath == -1

IdleCall ==
    [kind |-> "none", pc |-> "idle", path |-> 0, file |-> <<>>, sent |-> FALSE,
     atCall |-> FALSE, msg |-> 0, chan |-> 0, r |-> 0, staged |-> FALSE,
     ranSync |-> FALSE]

\* { filePath, timestamp, retryCount: 0 }, published without headers: hdr is
\* the header x-retry-count, 0 when the header is absent; doneAt is the number
\* of the first delivery whose handler returned, 0 when none has
NewMsg(path, f) ==
    [path |-> path, file |-> f, state |-> "queued", chan |-> 0, hdr |-> 0,
     deliveries |-> 0, requeues |-> 0, cb |-> "none", waits |-> 0, r |-> 0,
     acks |-> 0, nacks |-> 0, ok |-> FALSE, doneAt |-> 0, delay |-> 0]

InitBroker ==
    /\ brokerUp = TRUE
    /\ openConns = {}
    /\ openChans = {}
    /\ connCount = 0
    /\ lossCount = 0
    /\ connection = 0
    /\ channel = 0
    /\ isConnected = FALSE
    /\ connectionPromise = "null"
    /\ isConnecting = FALSE
    /\ reconnectAttempts = 0
    /\ timers = 0
    /\ tries = 0
    /\ dc = "none"
    /\ consumers = {}
    /\ fsFiles = {LoadPath}
    /\ csvResults = <<>>
    /\ productsCache = {}
    /\ response = NoResponse
    /\ call = [u \in InitId..LastCall |-> IdleCall]

\* the service starts on an empty queue
InitQueue == InitBroker /\ msgs = <<>>

\* the jobs a durable queue holds from before the service started
Backlog(n) == [k \in 1..n |-> NewMsg(NoFilePath, <<>>)]

\* const delay = this.reconnectDelay * this.reconnectAttempts
Delay(attempts) == reconnectDelay * attempts

\* scheduleReconnect(): the attempt counter and the timers after the call, and
\* the delay of the timer it has set (0 when it has set none)
scheduleReconnect(attempts, pending) ==
    IF attempts >= maxReconnectAttempts THEN <<attempts, pending, 0>>
    ELSE <<attempts + 1, pending + 1, Delay(attempts + 1)>>

\* connect(): joins the attempt in flight, or starts _doConnect
connect ==
    IF isConnecting /\ connectionPromise # "null"
    THEN UNCHANGED <<isConnecting, connectionPromise, dc>>
    ELSE /\ isConnecting' = TRUE
         /\ connectionPromise' = "pending"
         /\ dc' = "connect"

\* a variant of ensureConnected() that tests the channel only, not isConnected
EnsureEntry_trustsChannel ==
    IF channel # 0 THEN "ok"
    ELSE IF connectionPromise = "pending" THEN "wait"
    ELSE IF connectionPromise = "null" THEN "connect"
    ELSE "throw"

\* ensureConnected() up to its await: "ok", "wait" (a connect is in flight),
\* "connect" (no connect was ever started) or "throw"
EnsureEntry ==
    IF isConnected /\ channel # 0 THEN "ok"
    ELSE IF connectionPromise = "pending" THEN "wait"
    ELSE IF connectionPromise = "null" THEN "connect"
    ELSE "throw"

\* whether a call publishes once its ensureConnected() is over: sendToCsvQueue,
\* or processCSVFromFile, which sends as soon as waitForConnection returns
Pubs(c, ok, chOpen) ==
    /\ ok /\ chOpen
    /\ c.pc \in {"send", "sendWait"} \/ (c.kind = "file" /\ c.pc \in {"wfc", "wfcWait", "wfcSleep"})

\* whether a call writes its temporary file once its ensureConnected() is over
Stages(c, ok) == ok /\ c.kind = "upload" /\ c.pc \in {"wfc", "wfcWait", "wfcSleep"}

\* a variant of AfterSend whose caller returns when the publish failed,
\* without running the pipeline itself
AfterSend_givesUp(c, ok, chOpen, idx) ==
    IF ok /\ chOpen
    THEN [c EXCEPT !.pc = "returned", !.sent = TRUE, !.msg = idx]
    ELSE [c EXCEPT !.pc = "returned", !.sent = FALSE]

\* sendToCsvQueue after ensureConnected(): publish returns, or it throws on a
\* channel that is closed, and the catch returns false
AfterSend(c, ok, chOpen, idx) ==
    IF ok /\ chOpen
    THEN [c EXCEPT !.pc = "returned", !.sent = TRUE, !.msg = idx]
    ELSE [c EXCEPT !.pc = IF c.kind = "send" THEN "returned" ELSE "needSync",
                   !.sent = FALSE]

\* a variant of Cont in which processCSVFromUpload sends the path of a file it
\* has not written
Cont_skipsStaging(c, ok, ch, chOpen, idx) ==
    IF c.pc \in {"send", "sendWait"} THEN AfterSend(c, ok, chOpen, idx)
    ELSE IF ~ok THEN [c EXCEPT !.pc = "wfcSleep"]
    ELSE IF c.kind = "upload" THEN [c EXCEPT !.pc = "staged"]
    ELSE IF c.kind = "file" THEN AfterSend(c, ok, chOpen, idx)
    ELSE [c EXCEPT !.pc = "consume", !.chan = ch]

\* the call after its ensureConnected() returned (ok) or threw
Cont(c, ok, ch, chOpen, idx) ==
    IF c.pc \in {"send", "sendWait"} THEN AfterSend(c, ok, chOpen, idx)
    ELSE IF ~ok THEN [c EXCEPT !.pc = "wfcSleep"]
    ELSE IF c.kind = "upload" THEN [c EXCEPT !.pc = "staged", !.staged = TRUE]
    ELSE IF c.kind = "file" THEN AfterSend(c, ok, chOpen, idx)
    ELSE [c EXCEPT !.pc = "consume", !.chan = ch]

Waiting(c) == c.pc \in {"sendWait", "wfcWait"}

RECURSIVE NewMsgs(_, _)
\* the messages the calls from u on publish when the connect they await succeeds
NewMsgs(u, chOpen) ==
    IF u > LastCall THEN <<>>
    ELSE (IF Waiting(call[u]) /\ Pubs(call[u], TRUE, chOpen)
          THEN <<NewMsg(call[u].path, call[u].file)>> ELSE <<>>)
         \o NewMsgs(u + 1, chOpen)

\* the connect in flight is settled: every call that awaits it goes on
ResumeAll(ok, ch) ==
    /\ call' = [u \in DOMAIN call |->
                  IF Waiting(call[u])
                  THEN Cont(call[u], ok, ch, TRUE,
                            Len(msgs) + Len(NewMsgs(0, TRUE)) - Len(NewMsgs(u + 1, TRUE)))
                  ELSE call[u]]
    /\ msgs' = IF ok THEN msgs \o NewMsgs(0, TRUE) ELSE msgs
    /\ fsFiles' = fsFiles \cup {call[u].path : u \in {v \in DOMAIN call :
                                   Waiting(call[v]) /\ Stages(call[v], ok)}}
    /\ UNCHANGED <<csvResults, qryVars>>

\* a call runs ensureConnected(): c is the call's record at that point
Ensure(u, c) ==
    LET e == EnsureEntry
        chOpen == channel \in openChans
    IN  IF e \in {"ok", "throw"}
        THEN /\ call' = [call EXCEPT ![u] = Cont(c, e = "ok", channel, chOpen, Len(msgs) + 1)]
             /\ msgs' = IF Pubs(c, e = "ok", chOpen)
                        THEN Append(msgs, NewMsg(c.path, c.file)) ELSE msgs
             /\ fsFiles' = IF Stages(c, e = "ok") THEN fsFiles \cup {c.path} ELSE fsFiles
             /\ UNCHANGED <<isConnecting, connectionPromise, dc, csvResults, qryVars>>
        ELSE /\ call' = [call EXCEPT ![u] =
                           [c EXCEPT !.pc = IF c.pc = "send" THEN "sendWait" ELSE "wfcWait"]]
             /\ IF e = "connect" THEN connect
                ELSE UNCHANGED <<isConnecting, connectionPromise, dc>>
             /\ UNCHANGED <<msgs, fsFiles, csvResults, qryVars>>

\* a new call takes the lowest number that is free
FreeCall(u) == call[u].pc = "idle" /\ \A v \in 1..(u - 1) : call[v].pc # "idle"

\* sendToCsvQueue(filePath), called by some client of the service
sendToCsvQueue(u, filePath) ==
    /\ FreeCall(u)
    /\ Ensure(u, [IdleCall EXCEPT !.kind = "send", !.pc = "send", !.path = filePath,
                                  !.file = LoadFile,
                                  !.atCall = isConnected /\ channel \in openChans])
    /\ UNCHANGED <<connection, channel, isConnected, reconnectAttempts, timers, tries>>
    /\ UNCHANGED <<envVars, consumers>>

\* waitForConnection(): the sleep of one second is over, the loop goes round
WaitRetry(u) ==
    /\ call[u].pc = "wfcSleep"
    /\ EnsureEntry # "throw"
    /\ Ensure(u, call[u])
    /\ UNCHANGED <<connection, channel, isConnected, reconnectAttempts, timers, tries>>
    /\ UNCHANGED <<envVars, consumers>>

\* a variant of waitForConnection whose loop has no time limit: it sleeps again
WaitTimeout_sleepsOn(u) ==
    /\ call[u].pc = "wfcSleep"
    /\ UNCHANGED <<envVars, cliVars, mqVars, call>>

\* waitForConnection(): the timeout is over after a sleep, it returns false;
\* the orchestrator turns to the synchronous run, the consumer's
\* initialisation sets its timer of ten seconds
WaitTimeout(u) ==
    /\ call[u].pc = "wfcSleep"
    /\ call' = [call EXCEPT ![u].pc = IF u = InitId THEN "initRetry" ELSE "needSync"]
    /\ UNCHANGED <<envVars, cliVars, mqVars>>

\* processCSVFromUpload(file): up to the await of waitForConnection
processCSVFromUpload(u, f) ==
    /\ FreeCall(u)
    /\ Ensure(u, [IdleCall EXCEPT !.kind = "upload", !.pc = "wfc", !.path = u, !.file = f])
    /\ UNCHANGED <<connection, channel, isConnected, reconnectAttempts, timers, tries>>
    /\ UNCHANGED <<envVars, consumers>>

\* processCSVFromUpload: the sleep of 100 ms is over, sendToCsvQueue(tempFilePath)
UploadSend(u) ==
    /\ call[u].pc = "staged"
    /\ Ensure(u, [call[u] EXCEPT !.pc = "send"])
    /\ UNCHANGED <<connection, channel, isConnected, reconnectAttempts, timers, tries>>
    /\ UNCHANGED <<envVars, consumers>>

\* processCSVFromFile(): throws when the file is missing, else goes up to the
\* await of waitForConnection
processCSVFromFile(u) ==
    /\ FreeCall(u)
    /\ IF LoadPath \in fsFiles
       THEN Ensure(u, [IdleCall EXCEPT !.kind = "file", !.pc = "wfc", !.path = LoadPath,
                                       !.file = LoadFile])
       ELSE /\ call' = [call EXCEPT ![u] = [IdleCall EXCEPT !.kind = "file", !.pc = "thrown"]]
            /\ UNCHANGED <<msgs, fsFiles, csvResults, qryVars, isConnecting, connectionPromise, dc>>
    /\ UNCHANGED <<connection, channel, isConnected, reconnectAttempts, timers, tries>>
    /\ UNCHANGED <<envVars, consumers>>

\* onModuleInit: await this.connect()
onModuleInit ==
    /\ connectionPromise = "null"
    /\ connect
    /\ UNCHANGED <<connection, channel, isConnected, reconnectAttempts, timers, tries>>
    /\ UNCHANGED <<envVars, mqVars, call>>

\* a reconnect timer fires: this.connect().catch(...)
TimerFires ==
    /\ timers > 0
    /\ timers' = timers - 1
    /\ tries' = IF isConnecting /\ connectionPromise # "null" THEN tries ELSE tries + 1
    /\ connect
    /\ UNCHANGED <<connection, channel, isConnected, reconnectAttempts>>
    /\ UNCHANGED <<envVars, mqVars, call>>

\* _doConnect: amqp.connect resolves; the 'error' and 'close' handlers are set
DoConnectOpened(connBudget) ==
    /\ dc = "connect"
    /\ brokerUp
    /\ connCount < connBudget
    /\ connCount' = connCount + 1
    /\ openConns' = openConns \cup {connCount + 1}
    /\ connection' = connCount + 1
    /\ dc' = "channel"
    /\ UNCHANGED <<channel, isConnected, connectionPromise, isConnecting,
                   reconnectAttempts, timers, tries>>
    /\ UNCHANGED <<brokerUp, openChans, lossCount, mqVars, call>>

\* _doConnect: createChannel, prefetch and setupCsvProcessing succeed
DoConnectReady ==
    /\ dc = "channel"
    /\ connection \in openConns
    /\ channel' = connection
    /\ openChans' = openChans \cup {connection}
    /\ isConnected' = TRUE
    /\ reconnectAttempts' = 0
    /\ connectionPromise' = "resolved"
    /\ isConnecting' = FALSE
    /\ dc' = "none"
    /\ ResumeAll(TRUE, connection)
    /\ tries' = 0
    /\ UNCHANGED <<connection, timers>>
    /\ UNCHANGED <<brokerUp, openConns, connCount, lossCount, consumers>>

\* _doConnect: amqp.connect, createChannel or the setup throws; the catch block
DoConnectFails ==
    /\ \/ dc = "connect" /\ ~brokerUp
       \/ dc = "channel" /\ connection \notin openConns
    /\ isConnected' = FALSE
    /\ LET sr == IF reconnectAttempts < maxReconnectAttempts
                 THEN scheduleReconnect(reconnectAttempts, timers)
                 ELSE <<reconnectAttempts, timers, 0>>
       IN  reconnectAttempts' = sr[1] /\ timers' = sr[2]
    /\ connectionPromise' = "rejected"
    /\ isConnecting' = FALSE
    /\ dc' = "none"
    /\ ResumeAll(FALSE, 0)
    /\ UNCHANGED <<connection, channel, tries>>
    /\ UNCHANGED <<envVars, consumers>>

\* the broker takes back the unacknowledged deliveries of the channels in C
\* and forgets their consumers
Requeue(m, C) ==
    IF m.state = "delivered" /\ m.chan \in C THEN [m EXCEPT !.state = "queued"] ELSE m

\* a connection closes under the client: 'close' alone, or 'error' and 'close';
\* each handler sets isConnected = false and calls scheduleReconnect()
ConnectionLost(c, withError) ==
    /\ c \in openConns
    /\ lossCount < MaxLosses
    /\ lossCount' = lossCount + 1
    /\ openConns' = openConns \ {c}
    /\ openChans' = openChans \ {c}
    /\ msgs' = [k \in DOMAIN msgs |-> Requeue(msgs[k], {c})]
    /\ consumers' = consumers \ {c}
    /\ isConnected' = FALSE
    /\ LET sr1 == scheduleReconnect(reconnectAttempts, timers)
           sr2 == IF withError THEN scheduleReconnect(sr1[1], sr1[2]) ELSE sr1
       IN  reconnectAttempts' = sr2[1] /\ timers' = sr2[2]
    /\ UNCHANGED <<connection, channel, connectionPromise, isConnecting, tries, dc>>
    /\ UNCHANGED <<brokerUp, connCount, fsFiles, csvResults, qryVars, call>>

\* closeConnection, from if (this.connection) on; ic is isConnected before it.
\* connection.close() on an open connection closes it and its channels and
\* emits 'close', whose handler sets isConnected = false and calls
\* scheduleReconnect(); on a closed connection it throws into the catch
ConnClose(u, ic) ==
    /\ call' = [call EXCEPT ![u] = [IdleCall EXCEPT !.kind = "destroy", !.pc = "returned"]]
    /\ IF connection # 0 /\ connection \in openConns
       THEN /\ openConns' = openConns \ {connection}
            /\ openChans' = openChans \ {connection}
            /\ msgs' = [k \in DOMAIN msgs |-> Requeue(msgs[k], {connection})]
            /\ consumers' = consumers \ {connection}
            /\ connection' = 0
            /\ isConnected' = FALSE
            /\ LET sr == scheduleReconnect(reconnectAttempts, timers)
               IN  reconnectAttempts' = sr[1] /\ timers' = sr[2]
       ELSE /\ isConnected' = ic
            /\ UNCHANGED <<openConns, openChans, msgs, consumers, connection,
                           reconnectAttempts, timers>>

\* onModuleDestroy: closeConnection() up to its first await.  isConnected is
\* set to false; an open channel is closed, a channel that is closed already
\* makes channel.close() throw into the catch, and without a channel the
\* connection is closed at once
onModuleDestroy(u) ==
    /\ FreeCall(u)
    /\ IF channel = 0
       THEN ConnClose(u, FALSE) /\ UNCHANGED channel
       ELSE /\ isConnected' = FALSE
            /\ IF channel \in openChans
               THEN /\ openChans' = openChans \ {channel}
                    /\ msgs' = [k \in DOMAIN msgs |-> Requeue(msgs[k], {channel})]
                    /\ consumers' = consumers \ {channel}
                    /\ call' = [call EXCEPT ![u] = [IdleCall EXCEPT !.kind = "destroy",
                                                                     !.pc = "closing"]]
               ELSE /\ call' = [call EXCEPT ![u] = [IdleCall EXCEPT !.kind = "destroy",
                                                                     !.pc = "returned"]]
                    /\ UNCHANGED <<openChans, msgs, consumers>>
            /\ UNCHANGED <<openConns, connection, channel, reconnectAttempts, timers>>
    /\ UNCHANGED <<connectionPromise, isConnecting, tries, dc>>
    /\ UNCHANGED <<brokerUp, connCount, lossCount, fsFiles, csvResults>>

\* closeConnection after await this.channel.close(): this.channel = null, and
\* the connection is closed
closeConnection(u) ==
    /\ call[u].kind = "destroy"
    /\ call[u].pc = "closing"
    /\ channel' = 0
    /\ ConnClose(u, isConnected)
    /\ UNCHANGED <<connectionPromise, isConnecting, tries, dc>>
    /\ UNCHANGED <<brokerUp, connCount, lossCount, fsFiles, csvResults>>

\* the broker closes a channel of an open connection; the handler only logs
ChannelClosed(c) ==
    /\ c \in openChans
    /\ lossCount < MaxLosses
    /\ lossCount' = lossCount + 1
    /\ openChans' = openChans \ {c}
    /\ msgs' = [k \in DOMAIN msgs |-> Requeue(msgs[k], {c})]
    /\ consumers' = consumers \ {c}
    /\ UNCHANGED <<brokerUp, openConns, connCount, cliVars, fsFiles, csvResults, qryVars, call>>

\* the broker becomes unreachable, or reachable again
BrokerFlips ==
    /\ brokerUp' = ~brokerUp
    /\ UNCHANGED <<openConns, openChans, connCount, lossCount, cliVars, mqVars, call>>

\* a run whose caller has not yet taken its result; the caller that takes it
\* leaves the slot of the run empty
Owned(r) ==
    \/ \E u \in DOMAIN call : call[u].pc = "sync" /\ call[u].r = r
    \/ \E k \in DOMAIN msgs : msgs[k].cb \in {"run", "stored"} /\ msgs[k].r = r

\* the orchestrator starts the pipeline itself: processCSVFileFromBuffer(buffer)
\* in processCSVFromUpload, processCSVFileSync(path) in processCSVFromFile
StartSync(u, rowBudget, runBudget) ==
    /\ call[u].pc = "needSync"
    /\ \E r \in RunIds :
          /\ ~Owned(r)
          /\ BeginRun(r, call[u].file, rowBudget, runBudget)
          /\ call' = [call EXCEPT ![u].pc = "sync", ![u].r = r]
    /\ UNCHANGED <<cache, snapCount, catalog, envVars, cliVars, mqVars, qryVars>>

\* the orchestrator's own run is settled.  processCSVFromUpload returns the
\* counts, after unlinkSync when it had written the file, or throws what the
\* run threw; processCSVFileSync catches and processCSVFromFile returns
SyncDone(c, resolved) ==
    IF c.kind = "upload" /\ ~resolved THEN [c EXCEPT !.pc = "thrown", !.ranSync = TRUE]
    ELSE [c EXCEPT !.pc = "returned", !.ranSync = TRUE]

SyncSettles(u) ==
    /\ call[u].pc = "sync"
    /\ Settled(run[call[u].r])
    /\ LET resolved == run[call[u].r].pc = "resolved"
       IN  /\ call' = [call EXCEPT ![u] = SyncDone(call[u], resolved)]
           /\ fsFiles' = IF call[u].kind = "upload" /\ call[u].staged /\ resolved
                         THEN fsFiles \ {call[u].path} ELSE fsFiles
    /\ run' = [run EXCEPT ![call[u].r] = IdleRun]
    /\ UNCHANGED <<cache, snapCount, catalog, runCount, rowsUsed>>
    /\ UNCHANGED <<envVars, cliVars, msgs, consumers, csvResults, qryVars>>

\* the constructor's initializeQueueConsumerWithMonitoring(), and its retry
\* when the timer of ten seconds fires
initializeQueueConsumerWithMonitoring ==
    /\ call[InitId].pc \in {"idle", "initRetry"}
    /\ Ensure(InitId, [IdleCall EXCEPT !.kind = "init", !.pc = "wfc"])
    /\ UNCHANGED <<connection, channel, isConnected, reconnectAttempts, timers, tries>>
    /\ UNCHANGED <<envVars, consumers>>

\* consumeCsvQueue: channel.consume resolves and the consumer is attached, or
\* it rejects on a closed channel and the initialisation sets its timer
ConsumeSettles ==
    /\ call[InitId].pc = "consume"
    /\ IF call[InitId].chan \in openChans
       THEN /\ consumers' = consumers \cup {call[InitId].chan}
            /\ call' = [call EXCEPT ![InitId].pc = "done"]
       ELSE /\ call' = [call EXCEPT ![InitId].pc = "initRetry"]
            /\ UNCHANGED consumers
    /\ UNCHANGED <<envVars, cliVars, msgs, fsFiles, csvResults, qryVars>>

\* await this.channel.prefetch(10), on every channel _doConnect creates
prefetch == 10

\* the deliveries on channel c that the broker holds unacknowledged
Unacked(c) == {k \in DOMAIN msgs : msgs[k].state = "delivered" /\ msgs[k].chan = c}

\* a variant of Deliver for a channel on which no prefetch limit was set
Deliver_noPrefetch(k) ==
    /\ msgs[k].state = "queued"
    /\ msgs[k].cb = "none"
    /\ msgs[k].deliveries < MaxDeliveries
    /\ \E c \in consumers :
          msgs' = [msgs EXCEPT ![k] = [@ EXCEPT !.state = "delivered", !.chan = c,
                                                !.deliveries = @ + 1, !.cb = "wait",
                                                !.waits = 0, !.delay = 0,
                                                !.acks = 0, !.nacks = 0]]
    /\ UNCHANGED <<envVars, cliVars, consumers, fsFiles, csvResults, qryVars, call>>

\* the broker delivers a message to the consumer, unless the consumer's
\* channel holds its prefetch count of unacknowledged deliveries: the callback
\* and, in it, the handler of setupQueueConsumer start
Deliver(k) ==
    /\ msgs[k].state = "queued"
    /\ msgs[k].cb = "none"
    /\ msgs[k].deliveries < MaxDeliveries
    /\ \E c \in consumers :
          /\ Cardinality(Unacked(c)) < prefetch
          /\ msgs' = [msgs EXCEPT ![k] = [@ EXCEPT !.state = "delivered", !.chan = c,
                                                !.deliveries = @ + 1, !.cb = "wait",
                                                !.waits = 0, !.delay = 0,
                                                !.acks = 0, !.nacks = 0]]
    /\ UNCHANGED <<envVars, cliVars, consumers, fsFiles, csvResults, qryVars, call>>

\* the callback after the handler: this.channel.ack(message), or in the catch
\* this.channel.nack(message, false, retryCount <= 3).  Both throw on a closed
\* channel; on a channel other than the delivery's the broker knows no such
\* delivery and closes that channel
CallbackEnd(k, ok) ==
    LET m == msgs[k]
        retryCount == m.hdr + 1
        requeue == retryCount <= xMaxRetries
        thrown == channel \notin openChans
        own == ~thrown /\ channel = m.chan /\ m.state = "delivered"
        fin == [m EXCEPT !.cb = "none", !.ok = ok,
                         !.doneAt = IF ok /\ @ = 0 THEN m.deliveries ELSE @]
        closed == IF thrown \/ own THEN {} ELSE {channel}
        after == IF thrown THEN [fin EXCEPT !.acks = IF ok THEN 1 ELSE 0, !.nacks = 1]
                 ELSE IF ok
                 THEN [fin EXCEPT !.acks = 1, !.state = IF own THEN "acked" ELSE @]
                 ELSE [fin EXCEPT !.nacks = 1,
                                  !.state = IF ~own THEN @
                                            ELSE IF requeue THEN "queued" ELSE "discarded",
                                  !.requeues = IF own /\ requeue THEN @ + 1 ELSE @]
    IN  /\ msgs' = [j \in DOMAIN msgs |-> IF j = k THEN after ELSE Requeue(msgs[j], closed)]
        /\ openChans' = openChans \ closed
        /\ consumers' = consumers \ closed

\* the handler on a message without filePath: it logs and returns, and the
\* callback acknowledges the message
HandlerInvalid(k) ==
    /\ msgs[k].cb = "wait"
    /\ msgs[k].path = EmptyPath
    /\ CallbackEnd(k, TRUE)
    /\ UNCHANGED <<brokerUp, openConns, connCount, lossCount, cliVars, fsFiles, csvResults, call>>
    /\ UNCHANGED <<pipeVars, qryVars>>

\* a variant of HandlerWait that throws as soon as it finds no file
HandlerWait_failsAtOnce(k) ==
    /\ msgs[k].cb = "wait"
    /\ msgs[k].path # EmptyPath
    /\ msgs[k].path \notin fsFiles
    /\ CallbackEnd(k, FALSE)
    /\ UNCHANGED <<brokerUp, openConns, connCount, lossCount, cliVars, fsFiles, csvResults, call>>
    /\ UNCHANGED <<pipeVars, qryVars>>

\* the handler's loop: the file is not there, it sleeps 1000 * (retryCount + 1)
\* ms and looks again; after five sleeps it throws 'Temporary file missing'.
\* delay is the length of the sleep the handler is in or has last been in
HandlerWait(k) ==
    /\ msgs[k].cb = "wait"
    /\ msgs[k].path # EmptyPath
    /\ msgs[k].path \notin fsFiles
    /\ IF msgs[k].waits < maxRetries
       THEN /\ msgs' = [msgs EXCEPT ![k].waits = @ + 1,
                                    ![k].delay = 1000 * (msgs[k].waits + 1)]
            /\ UNCHANGED <<openChans, consumers>>
       ELSE CallbackEnd(k, FALSE)
    /\ UNCHANGED <<brokerUp, openConns, connCount, lossCount, cliVars, fsFiles, csvResults, call>>
    /\ UNCHANGED <<pipeVars, qryVars>>

\* the file of a job that no handler has yet worked on shows at its path (the
\* consumer may see the storage later than the publisher wrote to it)
FileShows(k) ==
    /\ msgs[k].path \notin fsFiles
    /\ \A j \in DOMAIN msgs : msgs[j].path = msgs[k].path => msgs[j].doneAt = 0
    /\ fsFiles' = fsFiles \cup {msgs[k].path}
    /\ UNCHANGED <<envVars, cliVars, msgs, consumers, csvResults, qryVars, call>>

\* the handler: the file is there, processCSVFileWithMetrics(filePath)
HandlerRun(k, rowBudget, runBudget) ==
    /\ msgs[k].cb = "wait"
    /\ msgs[k].path \in fsFiles
    /\ \E r \in RunIds :
          /\ ~Owned(r)
          /\ BeginRun(r, msgs[k].file, rowBudget, runBudget)
          /\ msgs' = [msgs EXCEPT ![k].cb = "run", ![k].r = r]
    /\ UNCHANGED <<cache, snapCount, catalog, envVars, cliVars, consumers, fsFiles, csvResults, qryVars, call>>

\* the summary the handler stores for a result
Summary(result) ==
    [success |-> result.successCount, errors |-> Len(result.errors), source |-> "queue"]

\* a variant of HandlerSettles that stores a summary for a failed run too
HandlerSettles_storesAlways(k) ==
    /\ msgs[k].cb = "run"
    /\ Settled(run[msgs[k].r])
    /\ csvResults' = Append(csvResults, Summary(run[msgs[k].r]))
    /\ IF run[msgs[k].r].pc = "resolved"
       THEN /\ msgs' = [msgs EXCEPT ![k].cb = "stored"]
            /\ UNCHANGED <<run, openChans, consumers>>
       ELSE /\ CallbackEnd(k, FALSE)
            /\ run' = [run EXCEPT ![msgs[k].r] = IdleRun]
    /\ UNCHANGED <<cache, snapCount, catalog, runCount, rowsUsed>>
    /\ UNCHANGED <<brokerUp, openConns, connCount, lossCount, cliVars, fsFiles, qryVars, call>>

\* the handler's run is settled.  Resolved: the handler stores the summary
\* with redisService.set and awaits it.  Rejected: the handler's catch throws
\* what the run threw, and the callback nacks
HandlerSettles(k) ==
    /\ msgs[k].cb = "run"
    /\ Settled(run[msgs[k].r])
    /\ IF run[msgs[k].r].pc = "resolved"
       THEN /\ csvResults' = Append(csvResults, Summary(run[msgs[k].r]))
            /\ msgs' = [msgs EXCEPT ![k].cb = "stored"]
            /\ UNCHANGED <<run, openChans, consumers>>
       ELSE /\ CallbackEnd(k, FALSE)
            /\ run' = [run EXCEPT ![msgs[k].r] = IdleRun]
            /\ UNCHANGED csvResults
    /\ UNCHANGED <<cache, snapCount, catalog, runCount, rowsUsed>>
    /\ UNCHANGED <<brokerUp, openConns, connCount, lossCount, cliVars, fsFiles, call>>
    /\ UNCHANGED qryVars

\* the summary is stored: the handler deletes the file and returns, and the
\* callback acks
HandlerStored(k) ==
    /\ msgs[k].cb = "stored"
    /\ fsFiles' = fsFiles \ {msgs[k].path}
    /\ CallbackEnd(k, TRUE)
    /\ run' = [run EXCEPT ![msgs[k].r] = IdleRun]
    /\ UNCHANGED <<cache, snapCount, catalog, runCount, rowsUsed>>
    /\ UNCHANGED <<brokerUp, openConns, connCount, lossCount, cliVars, csvResults, qryVars, call>>

\* the service is stopped and started again between two deliveries:
\* onModuleDestroy closes the connection, the process ends with its calls and
\* timers, and the new process starts from the constructor.  The broker takes
\* back what was not acknowledged; the queue, the files and the collection stay
Restart ==
    /\ connection # 0
    /\ connCount < MaxConns
    /\ \A k \in DOMAIN msgs : msgs[k].cb = "none"
    /\ \A u \in DOMAIN call : ~Waiting(call[u])
    /\ openConns' = {}
    /\ openChans' = {}
    /\ msgs' = [k \in DOMAIN msgs |-> Requeue(msgs[k], openChans)]
    /\ consumers' = {}
    /\ connection' = 0
    /\ channel' = 0
    /\ isConnected' = FALSE
    /\ connectionPromise' = "null"
    /\ isConnecting' = FALSE
    /\ reconnectAttempts' = 0
    /\ timers' = 0
    /\ tries' = 0
    /\ dc' = "none"
    /\ call' = [call EXCEPT ![InitId] = IdleCall]
    /\ UNCHANGED <<brokerUp, connCount, lossCount, fsFiles, csvResults, qryVars>>

ClientStep(connBudget) ==
    \/ onModuleInit
    \/ TimerFires
    \/ DoConnectOpened(connBudget)
    \/ DoConnectReady
    \/ DoConnectFails

EnvStep ==
    \/ \E c \in openConns, e \in BOOLEAN : ConnectionLost(c, e)
    \/ \E c \in openChans : ChannelClosed(c)
    \/ BrokerFlips

(***************************************************************************)
(* SpecPipe: the two pipeline functions called directly                    *)
(***************************************************************************)
NoRunActive == \A q \in DOMAIN run : ~Active(run[q])

RECURSIVE Chunks(_, _)
\* a content cut into pieces of at most n rows
Chunks(f, n) ==
    IF f = <<>> THEN <<>>
    ELSE IF Len(f) <= n THEN <<f>>
    ELSE <<SubSeq(f, 1, n)>> \o Chunks(SubSeq(f, n + 1, Len(f)), n)

\* a variant of the file stream that ends after its first chunk
createReadStream_firstChunk(f) == IF f = <<>> THEN <<>> ELSE <<Head(Chunks(f, ChunkRows))>>

\* fs.createReadStream(csvFilePath): the file's content, chunk after chunk
createReadStream(f) == Chunks(f, ChunkRows)

\* require('stream').Readable.from(buffer): the buffer is pushed as one chunk
ReadableFrom(buffer) == <<buffer>>

RECURSIVE CsvRows(_)
\* .pipe(csv({...})): the parser emits the rows of the chunks in their order
CsvRows(chunks) ==
    IF chunks = <<>> THEN <<>> ELSE Head(chunks) \o CsvRows(Tail(chunks))

\* a caller invokes processCSVFileFromBuffer(buffer)
processCSVFileFromBuffer(r, files, rowBudget) ==
    /\ \E f \in files : BeginRun(r, CsvRows(ReadableFrom(f)), rowBudget, MaxRuns)
    /\ UNCHANGED <<cache, snapCount, catalog>>

\* a caller invokes processCSVFileWithMetrics(csvFilePath)
processCSVFileWithMetrics(r, files, rowBudget) ==
    /\ \E f \in files : BeginRun(r, CsvRows(createReadStream(f)), rowBudget, MaxRuns)
    /\ UNCHANGED <<cache, snapCount, catalog>>

InitRuns ==
    /\ cache = Undefined
    /\ snapCount = 0
    /\ catalog = {OldProduct}
    /\ run = [r \in RunIds |-> IdleRun]
    /\ runCount = 0
    /\ rowsUsed = 0

InitPipe == InitRuns /\ InitQueue

\* one run after the other
NextPipe ==
    \/ \E r \in RunIds : NoRunActive /\ processCSVFileFromBuffer(r, Files, MaxRows)
                           /\ UNCHANGED queueVars
    \/ \E r \in RunIds : NoRunActive /\ processCSVFileWithMetrics(r, Files, MaxRows)
                           /\ UNCHANGED queueVars
    \/ \E r \in RunIds : RunStep(r) /\ UNCHANGED queueVars
    \/ CacheExpire /\ UNCHANGED queueVars

SpecPipe == InitPipe /\ [][NextPipe]_vars

\* runs that overlap
NextConc ==
    \/ \E r \in RunIds : processCSVFileFromBuffer(r, ConcFiles, MaxConcRows)
                           /\ UNCHANGED queueVars
    \/ \E r \in RunIds : processCSVFileWithMetrics(r, ConcFiles, MaxConcRows)
                           /\ UNCHANGED queueVars
    \/ \E r \in RunIds : RunStep(r) /\ UNCHANGED queueVars
    \/ CacheExpire /\ UNCHANGED queueVars

SpecConc == InitPipe /\ [][NextConc]_vars

\* one run after the other, on a stream that may fail or be timed out
NextFail ==
    \/ NextPipe
    \/ \E r \in RunIds : StreamFails(r, "stream error") /\ UNCHANGED queueVars
    \/ \E r \in RunIds : TimeoutFires(r) /\ UNCHANGED queueVars

SpecFail == InitPipe /\ [][NextFail]_vars

\* one run after the other, on files of every kind of row
NextRows ==
    \/ \E r \in RunIds : NoRunActive /\ processCSVFileFromBuffer(r, ValFiles, MaxValRows)
                           /\ UNCHANGED queueVars
    \/ \E r \in RunIds : NoRunActive /\ processCSVFileWithMetrics(r, ValFiles, MaxValRows)
                           /\ UNCHANGED queueVars
    \/ \E r \in RunIds : RunStep(r) /\ UNCHANGED queueVars
    \/ CacheExpire /\ UNCHANGED queueVars

SpecRows == InitPipe /\ [][NextRows]_vars

\* one run after the other, the provider answering with any rate table
NextRates ==
    \/ \E r \in RunIds : NoRunActive /\ processCSVFileFromBuffer(r, UploadFiles, MaxRows)
                           /\ UNCHANGED queueVars
    \/ \E r \in RunIds : NoRunActive /\ processCSVFileWithMetrics(r, UploadFiles, MaxRows)
                           /\ UNCHANGED queueVars
    \/ \E r \in RunIds : \E rates \in RateTables :
          RatesHttpAnswers(r, rates) /\ UNCHANGED queueVars
    \/ \E r \in RunIds : RunStep(r) /\ UNCHANGED queueVars
    \/ CacheExpire /\ UNCHANGED queueVars

SpecRates == InitPipe /\ [][NextRates]_vars

\* the collection holds up to MaxDocs products when it is queried
Docs(n) == {[OldProduct EXCEPT !.line = k] : k \in 1..n}

InitQuery ==
    /\ InitQueue
    /\ cache = Undefined
    /\ snapCount = 0
    /\ catalog \in {Docs(n) : n \in 0..MaxDocs}
    /\ run = [r \in RunIds |-> IdleRun]
    /\ runCount = 0
    /\ rowsUsed = 0

\* product queries on a collection that no run changes
NextQuery ==
    \/ \E page \in Pages, limit \in Limits : getProducts(page, limit)
    \/ \E page \in Pages, limit \in Limits : findAllCalled(page, limit)
    \/ ProductsCacheExpire

SpecQuery == InitQuery /\ [][NextQuery]_vars

\* product queries before and after import runs
NextStale ==
    \/ \E r \in RunIds : NoRunActive /\ processCSVFileWithMetrics(r, ConcFiles, MaxRows)
                           /\ UNCHANGED queueVars
    \/ \E r \in RunIds : RunStep(r) /\ UNCHANGED queueVars
    \/ \E page \in Pages, limit \in Limits : NoRunActive /\ findAllCalled(page, limit)
    \/ ProductsCacheExpire

SpecStale == InitPipe /\ [][NextStale]_vars


(***************************************************************************)
(* Properties of the import runs                                           *)
(***************************************************************************)
CeilDiv(a, b) == (a + b - 1) \div b

\* C3: when a run completes, successCount + len(errors) equals the number of
\* data rows of the file, whatever the rows hold.
C3_EveryRowCounted ==
    \A r \in RunIds :
        run[r].pc = "resolved" =>
            run[r].successCount + Len(run[r].errors) = Len(run[r].file)

\* C7: a failed batch insert does not stop the run: every batch of the run is
\* attempted in turn, and a batch whose own insert succeeds inserts all its
\* records, whatever happened to the batches before it.
C7_BatchFailureIsolated ==
    \A r \in RunIds :
        LET s == run[r]
            n == Len(s.results)
        IN  /\ (\E k \in DOMAIN s.batchLog : s.batchLog[k].failed) =>
                   s.pc \in {"insertMany", "resolved"}
            /\ \A k \in DOMAIN s.batchLog :
                   /\ s.batchLog[k].batchNumber = k
                   /\ s.batchLog[k].size = Min(batchSize, n - (k - 1) * batchSize)
                   /\ ~s.batchLog[k].failed => s.batchLog[k].inserted = s.batchLog[k].size
            /\ (s.pc = "resolved" /\ n > 0) => Len(s.batchLog) = CeilDiv(n, batchSize)
            /\ s.pc = "insertMany" => Len(s.batchLog) < CeilDiv(n, batchSize)

\* C7 witness: a completed run whose first batch failed and whose second batch
\* inserted all its records.
C7_Witness ==
    \E r \in RunIds :
        /\ run[r].pc = "resolved"
        /\ Len(run[r].batchLog) >= 2
        /\ run[r].batchLog[1].failed
        /\ ~run[r].batchLog[2].failed
        /\ run[r].batchLog[2].inserted = run[r].batchLog[2].size
        /\ run[r].batchLog[2].inserted > 0

NoBatchFailed(s) == \A k \in DOMAIN s.batchLog : ~s.batchLog[k].failed

C9_FailFast ==
    \A r \in RunIds :
        run[r].providerFailed =>
            /\ run[r].pc = "rejected"
            /\ run[r].pos = 0 /\ run[r].lineCount = 0
            /\ run[r].successCount = 0 /\ run[r].results = <<>>
            /\ \A d \in catalog : d.inst # run[r].inst

\* C9 witness: a run rejected by a failed provider call.
C9_Witness ==
    \E r \in RunIds :
        /\ run[r].providerFailed
        /\ run[r].pc = "rejected"
        /\ Len(run[r].file) > 0

\* C10: every record of a run carries the snapshot the run obtained before its
\* first row, and no record is without a snapshot, whatever the shared cache
\* holds meanwhile.
C10_OneSnapshotPerRun ==
    /\ \A r \in RunIds :
           /\ run[r].pos > 0 => run[r].exchangeRates # Undefined
           /\ \A k \in DOMAIN run[r].results :
                  run[r].results[k].exchangeRates = run[r].exchangeRates
    /\ \A d \in catalog : d.exchangeRates # Undefined
    /\ \A d1, d2 \in catalog : d1.inst = d2.inst => d1.exchangeRates = d2.exchangeRates

\* C10 witness: a run that has handled rows with its snapshot while the cache,
\* refreshed by another run, holds a later one.
C10_Witness ==
    \E r \in RunIds :
        /\ run[r].pc = "stream" /\ ~run[r].alone
        /\ Len(run[r].results) > 0 /\ run[r].pos < Len(run[r].file)
        /\ cache # Undefined
        /\ cache.date # run[r].exchangeRates.date


\* the queue client and its callers
NextClient ==
    \/ ClientStep(MaxConns) /\ UNCHANGED <<pipeVars, qryVars>>
    \/ EnvStep /\ UNCHANGED <<pipeVars, qryVars>>
    \/ \E u \in CallIds : sendToCsvQueue(u, LoadPath) /\ UNCHANGED <<pipeVars, qryVars>>

InitClient == InitRuns /\ InitQueue

SpecClient == InitClient /\ [][NextClient]_vars

\* the queue client alone, with its timers and the broker
NextReconnect ==
    \/ ClientStep(MaxReconnects) /\ UNCHANGED <<pipeVars, qryVars>>
    \/ EnvStep /\ UNCHANGED <<pipeVars, qryVars>>

SpecReconnect == InitClient /\ [][NextReconnect]_vars

\* a connect that opens a connection uses up a timer, and timers are left
\* over only by a loss: two by its 'error' and 'close' handlers and, when the
\* loss comes during _doConnect, one by the catch block.  The client opens no
\* more connections than this
WaitConns == 1 + 3 * MaxLosses

\* the consumer's initialisation waiting for the client's connection
NextWait ==
    \/ ClientStep(WaitConns) /\ UNCHANGED <<pipeVars, qryVars>>
    \/ EnvStep /\ UNCHANGED <<pipeVars, qryVars>>
    \/ initializeQueueConsumerWithMonitoring /\ UNCHANGED <<pipeVars, qryVars>>
    \/ WaitRetry(InitId) /\ UNCHANGED <<pipeVars, qryVars>>
    \/ WaitTimeout(InitId) /\ UNCHANGED <<pipeVars, qryVars>>
    \/ ConsumeSettles /\ UNCHANGED <<pipeVars, qryVars>>

\* amqp.connect has a timeout and the broker answers or drops the connection,
\* so a connect in flight is settled; the clock goes on, so the time limit of
\* waitForConnection is reached
FairWait ==
    /\ WF_vars((DoConnectOpened(WaitConns) \/ DoConnectReady \/ DoConnectFails)
                  /\ UNCHANGED <<pipeVars, qryVars>>)
    /\ WF_vars(WaitTimeout(InitId) /\ UNCHANGED <<pipeVars, qryVars>>)

SpecWait == InitClient /\ [][NextWait]_vars /\ FairWait

\* A run in progress neither reads nor writes the state of the queue client,
\* of the broker or of the calls, so their steps are taken between the steps
\* of no run: Quiet is every such step
Quiet(A) == NoRunActive /\ A /\ UNCHANGED <<pipeVars, qryVars>>

NoCallActive == \A u \in CallIds \cup UploadIds : call[u].pc \in {"idle", "returned", "thrown"}

\* the orchestrator over the queue client, one call after the other
NextUpload ==
    \/ Quiet(ClientStep(MaxUploadConns))
    \/ Quiet(EnvStep)
    \/ \E u \in UploadIds, f \in UploadFiles :
          NoCallActive /\ Quiet(processCSVFromUpload(u, f))
    \/ \E u \in UploadIds : NoCallActive /\ Quiet(processCSVFromFile(u))
    \/ \E u \in UploadIds : Quiet(WaitRetry(u))
    \/ \E u \in UploadIds : Quiet(WaitTimeout(u))
    \/ \E u \in UploadIds : Quiet(UploadSend(u))
    \/ \E u \in UploadIds : StartSync(u, MaxUploadRows, MaxRuns)
    \/ \E u \in UploadIds : SyncSettles(u)
    \/ \E r \in RunIds : RunStep(r) /\ UNCHANGED queueVars

SpecUpload == InitClient /\ [][NextUpload]_vars

\* the consumer over the queue client
NextQueue ==
    \/ Quiet(ClientStep(MaxConns))
    \/ Quiet(EnvStep)
    \/ Quiet(initializeQueueConsumerWithMonitoring)
    \/ Quiet(WaitRetry(InitId))
    \/ Quiet(WaitTimeout(InitId))
    \/ Quiet(ConsumeSettles)
    \/ \E u \in SendIds, p \in {LoadPath, NoFilePath} : Quiet(sendToCsvQueue(u, p))
    \/ \E k \in DOMAIN msgs : Quiet(Deliver(k))
    \/ \E k \in DOMAIN msgs : NoRunActive /\ HandlerWait(k)
    \/ \E k \in DOMAIN msgs : HandlerRun(k, MaxDeliveries * Len(LoadFile), MaxDeliveries)
    \/ \E k \in DOMAIN msgs : HandlerSettles(k)
    \/ \E k \in DOMAIN msgs : HandlerStored(k)
    \/ \E r \in RunIds : RunStep(r) /\ UNCHANGED queueVars

SpecQueue == InitClient /\ [][NextQueue]_vars

\* the consumer and its handler, on a connection that stays and a channel
\* that may be closed
NextConsume ==
    \/ Quiet(ClientStep(MaxUploadConns))
    \/ \E c \in openChans : Quiet(ChannelClosed(c))
    \/ Quiet(initializeQueueConsumerWithMonitoring)
    \/ Quiet(ConsumeSettles)
    \/ \E u \in SendIds, p \in {LoadPath, NoFilePath} : Quiet(sendToCsvQueue(u, p))
    \/ \E k \in DOMAIN msgs : Quiet(Deliver(k))
    \/ \E k \in DOMAIN msgs : NoRunActive /\ HandlerWait(k)
    \/ \E k \in DOMAIN msgs : HandlerRun(k, MaxRuns * Len(LoadFile), MaxRuns)
    \/ \E k \in DOMAIN msgs : HandlerSettles(k)
    \/ \E k \in DOMAIN msgs : HandlerStored(k)
    \/ \E r \in RunIds : RunStep(r) /\ UNCHANGED queueVars

SpecConsume == InitClient /\ [][NextConsume]_vars

\* the consumer and its handler, for jobs with and without a filePath
NextInvalid ==
    \/ Quiet(ClientStep(MaxUploadConns))
    \/ \E c \in openChans : Quiet(ChannelClosed(c))
    \/ Quiet(initializeQueueConsumerWithMonitoring)
    \/ Quiet(ConsumeSettles)
    \/ \E u \in SendIds, p \in {LoadPath, EmptyPath} : Quiet(sendToCsvQueue(u, p))
    \/ \E k \in DOMAIN msgs : Quiet(Deliver(k))
    \/ \E k \in DOMAIN msgs : NoRunActive /\ HandlerInvalid(k)
    \/ \E k \in DOMAIN msgs : HandlerRun(k, MaxRuns * Len(LoadFile), MaxRuns)
    \/ \E k \in DOMAIN msgs : HandlerSettles(k)
    \/ \E k \in DOMAIN msgs : HandlerStored(k)
    \/ \E r \in RunIds : RunStep(r) /\ UNCHANGED queueVars

SpecInvalid == InitClient /\ [][NextInvalid]_vars

\* the consumer and its handler, for jobs whose file shows late or never
NextFileWait ==
    \/ Quiet(ClientStep(MaxUploadConns))
    \/ Quiet(initializeQueueConsumerWithMonitoring)
    \/ Quiet(ConsumeSettles)
    \/ \E u \in SendIds : Quiet(sendToCsvQueue(u, NoFilePath))
    \/ \E k \in DOMAIN msgs : msgs[k].deliveries < MaxWaitDeliveries /\ Quiet(Deliver(k))
    \/ \E k \in DOMAIN msgs : NoRunActive /\ HandlerWait(k)
    \/ \E k \in DOMAIN msgs : Quiet(FileShows(k))
    \/ \E k \in DOMAIN msgs : HandlerRun(k, MaxUploadRows, MaxUploads)
    \/ \E k \in DOMAIN msgs : HandlerSettles(k)
    \/ \E k \in DOMAIN msgs : HandlerStored(k)
    \/ \E r \in RunIds : RunStep(r) /\ UNCHANGED queueVars

SpecFileWait == InitClient /\ [][NextFileWait]_vars

\* the message at the head of the queue, and the oldest callback in progress
QueueHead(k) == \A j \in 1..(k - 1) : msgs[j].state # "queued"

Oldest(k) == \A j \in 1..(k - 1) : msgs[j].cb = "none"

InitPrefetch ==
    /\ InitRuns
    /\ InitBroker
    /\ msgs = Backlog(MaxBacklog)

\* the consumer on a queue that holds a backlog of jobs whose file is gone:
\* the queue is served in its order, each job is delivered once, and the
\* handlers are stepped the oldest first
NextPrefetch ==
    \/ Quiet(ClientStep(MaxConns))
    \/ \E c \in openConns, e \in BOOLEAN : Quiet(ConnectionLost(c, e))
    \/ \E c \in openChans : Quiet(ChannelClosed(c))
    \/ Quiet(initializeQueueConsumerWithMonitoring)
    \/ Quiet(WaitRetry(InitId))
    \/ Quiet(WaitTimeout(InitId))
    \/ Quiet(ConsumeSettles)
    \/ \E k \in DOMAIN msgs :
          QueueHead(k) /\ msgs[k].deliveries = 0 /\ Quiet(Deliver(k))
    \/ \E k \in DOMAIN msgs : Oldest(k) /\ NoRunActive /\ HandlerWait(k)

SpecPrefetch == InitPrefetch /\ [][NextPrefetch]_vars

\* the queue client from the start of the module to after its destruction
NextDestroy ==
    \/ ClientStep(MaxConns) /\ UNCHANGED <<pipeVars, qryVars>>
    \/ BrokerFlips /\ UNCHANGED <<pipeVars, qryVars>>
    \/ \E c \in openChans : ChannelClosed(c) /\ UNCHANGED <<pipeVars, qryVars>>
    \/ \E u \in CallIds : onModuleDestroy(u) /\ UNCHANGED <<pipeVars, qryVars>>
    \/ \E u \in CallIds : closeConnection(u) /\ UNCHANGED <<pipeVars, qryVars>>

SpecDestroy == InitClient /\ [][NextDestroy]_vars

\* the consumer over the queue client, in a service that is restarted
NextRedeliver ==
    \/ NextQueue
    \/ Quiet(Restart)

SpecRedeliver == InitClient /\ [][NextRedeliver]_vars

\* the whole service
Init == InitClient

Next == NextPipe \/ NextConc \/ NextFail \/ NextRows \/ NextRates \/ NextQuery \/ NextStale \/ NextClient \/ NextReconnect \/ NextWait \/ NextUpload
          \/ NextConsume \/ NextInvalid \/ NextFileWait \/ NextPrefetch \/ NextDestroy
          \/ NextRedeliver

Spec == Init /\ [][Next]_vars

RECURSIVE Parse(_, _)
\* the 'data' handler applied to the rows a parser emits, one after the other
Parse(s, rows) ==
    IF rows = <<>> THEN s ELSE Parse(DataHandler(s, CsvData(Head(rows))), Tail(rows))

\* what the stream of a run leaves when its parser has emitted the rows
Outcome(rows, exchangeRates, inst) ==
    LET s == Parse([IdleRun EXCEPT !.exchangeRates = exchangeRates, !.inst = inst], rows)
    IN  [successCount |-> s.successCount, errors |-> s.errors, results |-> s.results]

StreamOver(s) == s.pc \notin {"idle", "ratesGet", "ratesHttp", "ratesSet", "stream"}

RowsOf(s) == 1..Len(s.file)

\* the cells of the row at position k, trimmed
RowAt(s, k) == CsvData(s.file[k])

\* the row at position k was accepted: a record of it is among the results
Accepted(s, k) == \E p \in Range(s.results) : p.line = k

\* the record made of the row at position k
RecordAt(s, k) == CHOOSE p \in Range(s.results) : p.line = k

\* the errors recorded for the row at position k
ErrorsAt(s, k) == {i \in DOMAIN s.errors : s.errors[i].line = k}

\* a run whose stream has handled every row
Streamed(s) == StreamOver(s) /\ s.exchangeRates # Undefined

\* a text of decimal digits
IsInteger(t) == t # <<>> /\ \A i \in DOMAIN t : IsDigit(t[i])

\* month/day/year as written in a cell that holds three integers
WrittenDate(t) ==
    LET parts == Split(t, "/")
    IN  [month |-> DigitsToNat(parts[1], 0), day |-> DigitsToNat(parts[2], 0),
         year |-> DigitsToNat(parts[3], 0)]

\* three integers month/day/year that denote an existing calendar date
IsCalendarDate(t) ==
    LET parts == Split(t, "/")
    IN  /\ Len(parts) = 3
        /\ \A i \in 1..3 : IsInteger(parts[i])
        /\ WrittenDate(t).month \in 1..12
        /\ WrittenDate(t).day \in 1..DaysInMonth(WrittenDate(t).year, WrittenDate(t).month - 1)

\* the row reaches the date rule: it is no repeat of the header line, it has
\* its three fields and its price is a number
ReachesDateRule(data) ==
    ~IsHeaderRow(data) /\ ~hasEmptyFields(data) /\ ~IsNaN(PriceOf(data))

\* C17: a row that reaches the date rule is accepted if and only if its
\* expiration is three integers month/day/year that denote an existing
\* calendar date, and the record of an accepted row holds the month, day and
\* year written in the cell
C17_DateValidated ==
    \A r \in DOMAIN run :
        Streamed(run[r]) =>
            \A k \in RowsOf(run[r]) :
                LET data == RowAt(run[r], k)
                IN  ReachesDateRule(data) =>
                        /\ Accepted(run[r], k) <=> IsCalendarDate(data.expiration)
                        /\ Accepted(run[r], k) =>
                              RecordAt(run[r], k).expiration = WrittenDate(data.expiration)

RECURSIVE RemoveAll(_, _)
\* the text without any occurrence of c
RemoveAll(t, c) ==
    IF t = <<>> THEN <<>>
    ELSE IF Head(t) = c THEN RemoveAll(Tail(t), c)
    ELSE <<Head(t)>> \o RemoveAll(Tail(t), c)

\* the number written in a price cell: the text without its leading currency
\* symbol and without any thousands separator
WrittenPrice(t) ==
    ParseFloat(RemoveAll(IF t # <<>> /\ Head(t) = "$" THEN Tail(t) ELSE t, ","))

\* the row reaches the price rule
ReachesPriceRule(data) == ~IsHeaderRow(data) /\ ~hasEmptyFields(data)

\* C18: a row that reaches the price rule is rejected as an invalid price if
\* and only if its price, the leading currency symbol and every thousands
\* separator removed, is not a number, and the record of an accepted row
\* holds the value of that whole text
C18_PriceParsed ==
    \A r \in DOMAIN run :
        Streamed(run[r]) =>
            \A k \in RowsOf(run[r]) :
                LET data == RowAt(run[r], k)
                IN  ReachesPriceRule(data) =>
                        /\ (\E i \in ErrorsAt(run[r], k) :
                                run[r].errors[i].error = "Invalid price format")
                              <=> IsNaN(WrittenPrice(data.price))
                        /\ Accepted(run[r], k) =>
                              RecordAt(run[r], k).price = WrittenPrice(data.price)

\* a row of the table in which a field is missing or empty after trimming
MissingField(rowId) ==
    \/ Trim(RowTable[rowId].name) = <<>>
    \/ Trim(RowTable[rowId].price) = <<>>
    \/ Trim(RowTable[rowId].expiration) = <<>>

\* C19: a row in which name, price or expiration is missing or empty after
\* trimming, once the handler has seen it, has exactly one error, the
\* missing-fields error; it is not among the results and no record of it is
\* in the collection
C19_MissingFieldsRejected ==
    \A r \in DOMAIN run :
        \A k \in 1..run[r].pos :
            MissingField(run[r].file[k]) =>
                /\ ~Accepted(run[r], k)
                /\ Cardinality(ErrorsAt(run[r], k)) = 1
                /\ \A i \in ErrorsAt(run[r], k) :
                      run[r].errors[i].error = "Missing required fields"
                /\ \A p \in catalog : ~(p.inst = run[r].inst /\ p.line = k)

\* C19: a run has resolved and stored the record of a row after it had
\* rejected a row whose expiration is made of blanks
C19_Witness ==
    \E r \in DOMAIN run :
        /\ run[r].pc = "resolved"
        /\ run[r].file = <<12, 1>>
        /\ run[r].errors # <<>>
        /\ \E p \in catalog : p.inst = run[r].inst /\ p.line = 2

\* the first rule a row of the table fails, in the order fields, price, date
FirstRuleFailed(rowId) ==
    IF MissingField(rowId) THEN "fields"
    ELSE IF IsNaN(WrittenPrice(Trim(RowTable[rowId].price))) THEN "price"
    ELSE IF ~IsCalendarDate(Trim(RowTable[rowId].expiration)) THEN "date"
    ELSE "none"

\* the messages of the errors of each rule
RuleErrors(rule) ==
    IF rule = "fields" THEN {"Missing required fields"}
    ELSE IF rule = "price" THEN {"Invalid price format"}
    ELSE {"Invalid date format", "Invalid date numbers", "Invalid date"}

\* C20: when the stream of a run is over, every row that fails a rule has
\* exactly one error, that of the first rule it fails, with the row's
\* position as its line; the lines of the errors are strictly increasing; and
\* every row that fails no rule is accepted, whatever rows came before it
C20_OneErrorPerFailingRow ==
    \A r \in DOMAIN run :
        Streamed(run[r]) =>
            /\ \A k \in RowsOf(run[r]) :
                  IF FirstRuleFailed(run[r].file[k]) = "none"
                  THEN Accepted(run[r], k)
                  ELSE /\ Cardinality(ErrorsAt(run[r], k)) = 1
                       /\ \A i \in ErrorsAt(run[r], k) :
                             run[r].errors[i].error
                                 \in RuleErrors(FirstRuleFailed(run[r].file[k]))
            /\ \A i, j \in DOMAIN run[r].errors :
                  i < j => run[r].errors[i].line < run[r].errors[j].line

\* successCount and the number of errors
Counts(s) == <<s.successCount, Len(s.errors)>>

\* C21: two runs over the same file with the same rates snapshot have the
\* same successCount and the same number of errors, whatever the other run,
\* the cache and the collection did in between; the counts are those of any
\* run over that file with that snapshot
C21_CountsDeterministic ==
    \A r \in DOMAIN run :
        Streamed(run[r]) =>
            /\ \A q \in DOMAIN run :
                  (Streamed(run[q]) /\ run[q].file = run[r].file
                     /\ run[q].exchangeRates = run[r].exchangeRates) =>
                        Counts(run[q]) = Counts(run[r])
            /\ Counts(run[r]) = Counts(Outcome(run[r].file, run[r].exchangeRates, 0))

\* C21: two runs over the same file, which holds a valid row, have resolved
\* with the same snapshot, and the second has stored its records
C21_Witness ==
    \E r, q \in DOMAIN run :
        /\ run[r].pc = "resolved" /\ run[q].pc = "resolved"
        /\ run[r].inst < run[q].inst
        /\ run[r].file = run[q].file
        /\ run[r].exchangeRates = run[q].exchangeRates
        /\ run[r].successCount >= 1
        /\ \E p \in catalog : p.inst = run[q].inst

(***************************************************************************)
(* Properties of the order of a run's steps                                *)
(***************************************************************************)
\* the run has its snapshot and has handled every row of its file
Validated(s) == s.exchangeRates # Undefined /\ s.pos = Len(s.file)

\* the run is at a step of processProductsInBatches
Persisting(s) == s.pc \in {"deleteMany", "insertMany"}

\* C27 as stated: whenever a run is about to clear the collection, its
\* enrichment or its parsing is still to be done, so that it can fail in them
\* after the collection is cleared.
C27_ClearedBeforeValidated ==
    \A r \in DOMAIN run :
        run[r].pc = "deleteMany" => ~Validated(run[r])

\* C27 as the code has it: a run clears the collection only when it has its
\* snapshot, has handled every row and has accepted at least one; the steps of
\* enrichment and parsing, and a failure in them, leave the collection as it
\* is.  A run fails in its rates fetch, in its stream or in deleteMany itself,
\* never past the clearing.
C27_ClearedAfterValidated ==
    [][/\ catalog' # catalog =>
             \E q \in DOMAIN run :
                 /\ Persisting(run[q]) /\ run'[q] # run[q]
                 /\ Validated(run[q])
                 /\ Len(run[q].results) > 0
       /\ \A r \in DOMAIN run :
             /\ (~Persisting(run[r]) /\ run'[r].pc # run[r].pc) => catalog' = catalog
             /\ (run'[r].pc = "rejected" /\ run[r].pc # "rejected") =>
                   /\ catalog' = catalog
                   /\ \/ run[r].pc = "ratesHttp" /\ run[r].pos = 0
                      \/ run[r].pc = "stream"
                      \/ run[r].pc = "deleteMany"]_vars

\* C27 witness: a run has cleared the collection, with its snapshot and all
\* its rows behind it, one of them rejected, and is about to insert its first
\* batch
C27_Witness ==
    \E r \in DOMAIN run :
        /\ run[r].pc = "insertMany" /\ run[r].i = 0
        /\ catalog = {}
        /\ Validated(run[r])
        /\ Len(run[r].errors) > 0

(***************************************************************************)
(* Properties of getExchangeRates                                          *)
(***************************************************************************)
\* the snapshot a run works with when getExchangeRates has returned ratesData
Enriched(ratesData) ==
    [date |-> ratesData.date, rates |-> getSelectedCurrencies(ratesData.rates)]

\* the run's call of getExchangeRates returns in this step
RatesReturn(r) == run[r].pc \in {"ratesGet", "ratesSet"} /\ run'[r].pc = "stream"

\* the run's call of getExchangeRates asks the provider in this step
ProviderCalled(r) == run[r].pc = "ratesHttp" /\ run'[r].pc # "ratesHttp"

C23_FailedFetchLeavesCache ==
    [][\A r \in DOMAIN run :
          /\ (ProviderCalled(r) /\ run'[r].providerFailed) =>
                /\ run'[r].pc = "rejected"
                /\ run'[r].error = "Failed to fetch exchange rates"
                /\ cache' = cache
                /\ snapCount' = snapCount
          /\ run[r].providerFailed =>
                /\ run[r].pc = "rejected"
                /\ run[r].exchangeRates = Undefined
                /\ run[r].ratesData = Undefined
                /\ run'[r].pc \notin {"ratesSet", "stream"}]_vars

\* C23 witness: a run's provider call has failed while the snapshot another
\* run stored after this run's miss is still under the key
C23_Witness ==
    \E r, q \in DOMAIN run :
        /\ run[r].providerFailed
        /\ run[r].error = "Failed to fetch exchange rates"
        /\ q # r
        /\ cache # Undefined
        /\ run[q].exchangeRates = Enriched(Cached(cache))
        /\ snapCount = 1

\* the restriction of a rate table to the allow-list
Restriction(rates) ==
    [c \in DOMAIN rates \cap selectedCurrencies |-> rates[c]]

\* the value getExchangeRates returns to the run in this step
Returned(r) == IF run[r].pc = "ratesGet" THEN Cached(cache) ELSE run[r].ratesData

\* C24: getSelectedCurrencies returns the restriction of its input to the
\* allow-list EUR, GBP, JPY, CAD, AUD, BRL: each allow-listed currency of the
\* input with its rate, and no other key.
C24_SelectedIsRestriction ==
    [][\A r \in DOMAIN run :
          RatesReturn(r) =>
              run'[r].exchangeRates.rates = Restriction(Returned(r).rates)]_vars

(***************************************************************************)
(* Properties of the queue client, the orchestrator and the consumer       *)
(***************************************************************************)
Orchestrated(c) == c.kind \in {"upload", "file"}

\* C1: a call of processCSVFromUpload or processCSVFromFile that has returned
\* normally has published a job that names its payload, or - sendToCsvQueue
\* or waitForConnection having returned false - has run the pipeline on the
\* payload itself before it returned
C1_NoUploadLost ==
    \A u \in DOMAIN call :
        (Orchestrated(call[u]) /\ call[u].pc = "returned") =>
            IF call[u].sent
            THEN /\ call[u].msg \in DOMAIN msgs
                 /\ msgs[call[u].msg].path = call[u].path
                 /\ msgs[call[u].msg].file = call[u].file
                 /\ call[u].path \in fsFiles
            ELSE call[u].ranSync

\* C1: an upload whose file was staged, whose publish failed and which was
\* then run by the call itself has returned
C1_Witness ==
    \E u \in DOMAIN call :
        /\ call[u].kind = "upload" /\ call[u].pc = "returned"
        /\ call[u].staged /\ ~call[u].sent /\ call[u].ranSync

SendReturns(u) ==
    /\ call'[u].kind = "send"
    /\ call[u].pc # "returned"
    /\ call'[u].pc = "returned"

\* C2 as stated: a call of sendToCsvQueue made while the client is not
\* Connected or its channel is not open returns false
C2_FalseWhenDownAtCall ==
    \A u \in DOMAIN call :
        (call[u].kind = "send" /\ call[u].pc = "returned" /\ ~call[u].atCall)
            => ~call[u].sent

\* C2: sendToCsvQueue never throws, and it returns false whenever the client
\* is not Connected or its channel is not open at the time it comes to
\* publish, that is once ensureConnected has waited for the connect attempt
\* in flight, if there was one
C2_FalseWhenDownAtPublish ==
    [][\A u \in DOMAIN call :
          /\ call'[u].kind = "send" => call'[u].pc # "thrown"
          /\ (SendReturns(u) /\ ~(isConnected' /\ channel' \in openChans'))
                => ~call'[u].sent]_vars

\* C2: a call made while the client was not Connected and had given up
\* reconnecting has returned false
C2_Witness ==
    \E u \in DOMAIN call :
        /\ call[u].kind = "send" /\ call[u].pc = "returned" /\ ~call[u].sent
        /\ ~isConnected /\ reconnectAttempts = maxReconnectAttempts /\ timers = 0

\* C4: no message is requeued more often than the retry cap allows
C4_RequeuesBounded ==
    \A k \in DOMAIN msgs : msgs[k].requeues <= xMaxRetries

\* C5: the callback of a delivery that is over has issued exactly one
\* decision: an ack if the handler returned, a nack if it threw
C5_OneDecision ==
    \A k \in DOMAIN msgs :
        (msgs[k].deliveries > 0 /\ msgs[k].cb = "none") =>
            /\ msgs[k].acks + msgs[k].nacks = 1
            /\ msgs[k].acks = 1 <=> msgs[k].ok

\* C6: once the consumer has been started, a consumer is attached on the
\* client's channel whenever the client is Connected and the channel is open
C6_ConsumerWhileConnected ==
    (call[InitId].pc = "done" /\ isConnected /\ channel \in openChans)
        => channel \in consumers

\* C11: a delivery that is over and that came after a delivery of the same
\* job whose handler had returned was handled as well: its handler returned
\* and the callback acknowledged it
C11_DuplicateHandled ==
    \A k \in DOMAIN msgs :
        (msgs[k].doneAt > 0 /\ msgs[k].deliveries > msgs[k].doneAt /\ msgs[k].cb = "none")
            => msgs[k].ok /\ msgs[k].acks = 1

\* C13: the attempt counter never exceeds maxReconnectAttempts, no more than
\* maxReconnectAttempts connects are started by reconnect timers since the
\* last connect that succeeded, every timer that is set has a longer delay
\* (reconnectDelay times the attempt number) than the one set before it, and
\* the counter goes back to 0 only when a connect succeeds
C13_BackoffBounded ==
    [][/\ reconnectAttempts' <= maxReconnectAttempts
       /\ tries' <= maxReconnectAttempts
       /\ timers' > timers =>
             /\ reconnectAttempts' > reconnectAttempts
             /\ Delay(reconnectAttempts') > Delay(reconnectAttempts)
       /\ (reconnectAttempts > 0 /\ reconnectAttempts' = 0) =>
             (isConnected' /\ connectionPromise' = "resolved")]_vars

\* the maximum number of reconnection attempts has failed: as many connects as
\* maxReconnectAttempts were started by reconnect timers since the last
\* connect that succeeded, and the last of them has failed
GivenUp ==
    /\ tries >= maxReconnectAttempts
    /\ connectionPromise = "rejected"
    /\ ~isConnecting

\* waitForConnection returns true to the call u
WaitReturnsTrue(u) ==
    /\ call[u].pc \in {"wfc", "wfcWait", "wfcSleep"}
    /\ call'[u].pc \in {"staged", "consume", "returned"}

\* C14: once the maximum number of reconnection attempts has failed the
\* client stays as it is: it starts no connect on its own, sendToCsvQueue
\* returns false and waitForConnection does not return true
C14_GivenUpTerminal ==
    [][GivenUp =>
          /\ GivenUp'
          /\ dc' = "none"
          /\ \A u \in DOMAIN call :
                /\ SendReturns(u) => ~call'[u].sent
                /\ ~WaitReturnsTrue(u)]_vars

\* C15: the client holds at most one open connection to the broker and at
\* most one open channel
C15_OneConnection ==
    /\ Cardinality(openConns) <= 1
    /\ Cardinality(openChans) <= 1

InWait(c) == c.pc \in {"wfc", "wfcWait", "wfcSleep"}

\* C16: waitForConnection returns true only when the client is Connected with
\* a channel of a connection that is open, a call that wakes from its sleep while the client is Connected
\* with a channel waits no longer, and every call of it returns
C16_WaitReturns ==
    /\ [][\A u \in DOMAIN call :
            /\ WaitReturnsTrue(u) =>
                  (isConnected' /\ channel' # 0 /\ channel' \in openConns')
            /\ (call[u].pc = "wfcSleep" /\ call'[u] # call[u] /\ EnsureEntry = "ok")
                  => ~InWait(call'[u])]_vars
    /\ \A u \in InitId..LastCall : InWait(call[u]) ~> ~InWait(call[u])

\* C16: the reconnection having been given up, a call of waitForConnection
\* has returned false
C16_Witness ==
    /\ call[InitId].pc = "initRetry"
    /\ ~isConnected /\ reconnectAttempts = maxReconnectAttempts /\ timers = 0

DocumentedLimit(limit) == Max(1, Min(limit, 1000))

\* C26: a product query made with a page and a limit skips
\* (max(1, page) - 1) * L records and returns at most L, where L is the limit
\* asked for clamped into 1..1000.
C26_PageOfClampedLimit ==
    response.via # "none" =>
        LET L == DocumentedLimit(response.limit)
        IN  /\ response.result.skip = (Max(1, response.page) - 1) * L
            /\ response.result.size <= L

(***************************************************************************)
(* Properties of the stages of an upload                                   *)
(***************************************************************************)
\* where a call of processCSVFromUpload stands, with the runs rn
StageOf(c, rn) ==
    IF c.kind # "upload" THEN "None"
    ELSE IF c.pc \in {"wfc", "wfcWait", "wfcSleep"} THEN "Received"
    ELSE IF c.pc \in {"staged", "send", "sendWait"}
         THEN IF c.staged THEN "Staged" ELSE "Unstaged"
    ELSE IF c.pc = "needSync" THEN "Direct"
    ELSE IF c.pc = "sync"
         THEN IF rn[c.r].pc \in {"ratesGet", "ratesHttp", "ratesSet"} THEN "Enriching"
              ELSE IF rn[c.r].pc = "stream" THEN "Parsing"
              ELSE IF rn[c.r].pc \in {"deleteMany", "insertMany"} THEN "Persisting"
              ELSE IF rn[c.r].pc = "resolved" THEN "Completed"
              ELSE "Failed"
    ELSE IF c.pc = "returned" THEN IF c.sent THEN "Queued" ELSE "Completed"
    ELSE "Failed"

\* the steps from stage to stage as stated (a call that finds the client
\* connected is staged in the step in which it is received)
StatedSteps ==
    {<<"None", "Received">>, <<"None", "Staged">>, <<"Received", "Staged">>,
     <<"Staged", "Queued">>, <<"Staged", "Direct">>,
     <<"Queued", "Parsing">>, <<"Direct", "Parsing">>,
     <<"Parsing", "Enriching">>, <<"Enriching", "Persisting">>,
     <<"Persisting", "Completed">>, <<"Persisting", "Failed">>}

\* the steps from stage to stage of processCSVFromUpload and
\* processCSVFileFromBuffer
CodeSteps ==
    {<<"None", "Received">>, <<"None", "Staged">>, <<"Received", "Staged">>,
     <<"Received", "Direct">>,
     <<"Staged", "Queued">>, <<"Staged", "Direct">>,
     <<"Direct", "Enriching">>,
     <<"Enriching", "Parsing">>, <<"Enriching", "Failed">>,
     <<"Parsing", "Persisting">>, <<"Parsing", "Completed">>, <<"Parsing", "Failed">>,
     <<"Persisting", "Completed">>, <<"Persisting", "Failed">>}

\* C28 as stated: an upload goes from stage to stage only along Received,
\* Staged, Queued or Direct, Parsing, Enriching, Persisting, Completed or
\* Failed: it is staged before it is queued or run directly, and its parsing
\* comes before its enrichment.
C28_StagesAsStated ==
    [][\A u \in UploadIds :
          StageOf(call'[u], run') # StageOf(call[u], run) =>
              <<StageOf(call[u], run), StageOf(call'[u], run')>> \in StatedSteps]_vars

\* C28 as the code has it: an upload that finds the client connected is
\* staged, its file written, and then queued, or run directly when the publish
\* fails; one that finds no connection is run directly without being staged.
\* A direct run obtains its rates first, then parses, then persists; a queued,
\* a completed or a failed upload takes no further step.
C28_StagesInOrder ==
    [][\A u \in UploadIds :
          LET from == StageOf(call[u], run)
              to == StageOf(call'[u], run')
          IN  /\ to # from => <<from, to>> \in CodeSteps
              /\ (to # from /\ to = "Staged") => call'[u].path \in fsFiles'
              /\ (from = "Received" /\ to = "Direct") =>
                    ~call'[u].staged /\ call'[u].path \notin fsFiles'
              /\ to = "Queued" => call'[u].staged
              /\ from \in {"Queued", "Completed", "Failed"} =>
                    /\ to = from
                    /\ call[u].pc # "sync" => call'[u] = call[u]]_vars

\* C28 witness: an upload that found no connection is run directly, unstaged,
\* and its run, the rates and the stream behind it, is persisting
C28_Witness ==
    \E u \in UploadIds :
        /\ call[u].kind = "upload" /\ call[u].pc = "sync"
        /\ ~call[u].staged /\ call[u].path \notin fsFiles
        /\ run[call[u].r].pc = "insertMany"
        /\ run[call[u].r].exchangeRates # Undefined

(***************************************************************************)
(* Properties of the handler's wait for the file                           *)
(***************************************************************************)
\* C29: the handler of a delivered job looks for the file, and while the file
\* is missing it sleeps at most 5 times, the n-th time for 1000 * n ms; it
\* starts the pipeline only when it sees the file, and when the file is still
\* missing after the fifth sleep it throws, and the message is nacked.
C29_BoundedFileWait ==
    [][\A k \in DOMAIN msgs :
          LET m == msgs[k]
          IN  /\ m.waits <= 5
              /\ (m.cb = "wait" /\ msgs'[k].waits # m.waits) =>
                    /\ m.path \notin fsFiles
                    /\ m.waits < 5
                    /\ msgs'[k].waits = m.waits + 1
                    /\ msgs'[k].delay = 1000 * msgs'[k].waits
                    /\ msgs'[k].cb = "wait"
              /\ (m.cb = "wait" /\ msgs'[k].cb = "run") =>
                    /\ m.path \in fsFiles
                    /\ run'[msgs'[k].r].pc = "ratesGet"
              /\ (m.cb = "wait" /\ msgs'[k].cb = "none") =>
                    /\ m.path \notin fsFiles
                    /\ m.waits = 5 /\ m.delay = 5000
                    /\ ~msgs'[k].ok /\ msgs'[k].nacks = 1 /\ msgs'[k].acks = 0
                    /\ run' = run]_vars

\* C29 witness: a handler that slept twice for the file has started the
\* pipeline, after a delivery of the job in which the file never showed
C29_Witness ==
    \E k \in DOMAIN msgs :
        /\ msgs[k].cb = "run"
        /\ msgs[k].waits = 2 /\ msgs[k].delay = 2000
        /\ msgs[k].path \in fsFiles

(***************************************************************************)
(* Properties of the prefetch limit                                        *)
(***************************************************************************)
\* the callbacks of the consumer that are in progress; each awaits at most
\* the one pipeline run its handler has started
InProgress == {k \in DOMAIN msgs : msgs[k].cb # "none"}

\* C30: at any time at most 10 delivered messages are unacknowledged, on
\* whichever channel the consumer is attached (the first or one created by a
\* reconnect), and at most 10 callbacks of the consumer, hence at most 10
\* pipeline runs started by them, are in progress at once
C30_PrefetchBound ==
    /\ Cardinality({k \in DOMAIN msgs : msgs[k].state = "delivered"}) <= 10
    /\ Cardinality(InProgress) <= 10

\* the consumer is attached to the channel of a later connection, ten
\* deliveries on it are unacknowledged with their callbacks in progress, and a
\* job that was never delivered waits in the queue
C30_Witness ==
    \E c \in consumers :
        /\ c > 1
        /\ Cardinality(Unacked(c)) = 10
        /\ Unacked(c) \subseteq InProgress
        /\ \E k \in DOMAIN msgs : msgs[k].state = "queued" /\ msgs[k].deliveries = 0

(***************************************************************************)
(* Properties of the batch loop                                            *)
(***************************************************************************)
\* the insert of a run that is in flight: the index of its batch, or none
InFlight(s) == IF s.pc = "insertMany" THEN {s.i \div batchSize + 1} ELSE {}

\* the batches of a run whose insert has returned or thrown
Finished(s) == {s.batchLog[k].batchNumber : k \in DOMAIN s.batchLog}

\* C31: within one run at most one batch insert is in flight, and it is the
\* batch after those that have finished;
\* the insert of the first batch starts in the step in which the run's
\* deleteMany returns, and the insert of batch k + 1 starts in the step in
\* which the insert of batch k finishes, successfully or not
C31_BatchesInTurn ==
    [][\A r \in RunIds :
          LET s == run[r]
              t == run'[r]
          IN  /\ Cardinality(InFlight(t)) <= 1
              /\ \A b \in InFlight(t) : Finished(t) = 1..(b - 1)
              /\ \A b \in InFlight(t) \ InFlight(s) :
                    IF b = 1
                    THEN s.pc = "deleteMany" /\ catalog' = {}
                    ELSE /\ InFlight(s) = {b - 1}
                         /\ Finished(t) = Finished(s) \cup {b - 1}
              /\ Finished(t) \ Finished(s) \subseteq InFlight(s)]_vars

\* the second batch of a run is in flight after its first batch failed
C31_Witness ==
    \E r \in RunIds :
        /\ InFlight(run[r]) = {2}
        /\ run[r].batchLog[1].failed

(***************************************************************************)
(* Properties of the processing timeout                                    *)
(***************************************************************************)
\* C32: when the timer of a run fires while its parse stream has not ended,
\* the run is rejected with the timeout error and has persisted nothing (no
\* deleteMany, no insert: the catalog is as it was); when it fires after the
\* stream has ended or failed, the run is not affected; and a settled run is
\* never settled again
C32_TimeoutAbortsOnce ==
    [][\A r \in RunIds :
          LET s == run[r]
              t == run'[r]
          IN  /\ (s.timer = "set" /\ t.timer = "fired") =>
                    /\ catalog' = catalog
                    /\ IF s.pc = "stream"
                       THEN /\ t.pc = "rejected"
                            /\ t.error = "CSV processing timeout"
                            /\ t.batchLog = <<>>
                            /\ t.catAtEnd = catalog
                       ELSE t = [s EXCEPT !.timer = "fired"]
              /\ Settled(s) =>
                    \/ [t EXCEPT !.timer = s.timer] = s
                    \/ t.pc = "ratesGet" /\ t.inst # s.inst]_vars

\* a run that had parsed valid rows was timed out, and the catalog still holds
\* what it held before
C32_Witness ==
    \E r \in RunIds :
        /\ run[r].pc = "rejected"
        /\ run[r].error = "CSV processing timeout"
        /\ run[r].timer = "fired"
        /\ Len(run[r].results) > 0
        /\ run[r].pos < Len(run[r].file)
        /\ catalog = {OldProduct}

(***************************************************************************)
(* Properties of the partition into batches                                *)
(***************************************************************************)
RECURSIVE Batches(_, _)
\* the slices the loop of processProductsInBatches takes from index i on
Batches(products, i) ==
    IF i >= Len(products) THEN <<>>
    ELSE <<BatchOf(products, i)>> \o Batches(products, i + batchSize)

RECURSIVE Flatten(_)
Flatten(bs) == IF bs = <<>> THEN <<>> ELSE Head(bs) \o Flatten(Tail(bs))

RECURSIVE TotalInserted(_)
TotalInserted(log) ==
    IF log = <<>> THEN 0 ELSE Head(log).inserted + TotalInserted(Tail(log))

\* C33: the batches of a run are consecutive slices of its valid records, in
\* order and without gap or overlap, of batchSize records each but for the
\* last, which holds 1 to batchSize; there are ceil(n / batchSize) of them,
\* the inserts of the run are made with them, and with no batch failure the
\* number of records inserted is the number of valid records
C33_BatchesPartition ==
    \A r \in RunIds :
        LET s == run[r]
            n == Len(s.results)
            B == Batches(s.results, 0)
        IN  s.pc \in {"deleteMany", "insertMany", "resolved"} =>
              /\ Flatten(B) = s.results
              /\ Len(B) = CeilDiv(n, batchSize)
              /\ \A k \in DOMAIN B :
                    IF k < Len(B) THEN Len(B[k]) = batchSize
                    ELSE Len(B[k]) \in 1..batchSize
              /\ \A k \in DOMAIN s.batchLog :
                    k \in DOMAIN B /\ s.batchLog[k].size = Len(B[k])
              /\ (s.pc = "resolved" /\ n > 0 /\ NoBatchFailed(s)) =>
                    /\ Len(s.batchLog) = Len(B)
                    /\ TotalInserted(s.batchLog) = n
                    /\ Cardinality(s.catAtEnd) = n

\* a run with more valid records than one batch holds, not a multiple of the
\* batch size, has completed with no batch failure
C33_Witness ==
    \E r \in RunIds :
        /\ run[r].pc = "resolved"
        /\ Len(run[r].results) > batchSize
        /\ Len(run[r].results) % batchSize # 0
        /\ NoBatchFailed(run[r])
        /\ Len(run[r].batchLog) = 2

(***************************************************************************)
(* Properties of runs that overlap                                         *)
(***************************************************************************)
\* C34: when two runs that overlapped have both completed, each with valid
\* records and without a batch failure, and no run is in progress, the
\* catalog holds the valid records of exactly one of the two
C34_Serializable ==
    \A r, q \in RunIds :
        (/\ r # q
         /\ run[r].pc = "resolved" /\ run[q].pc = "resolved"
         /\ ~run[r].alone /\ ~run[q].alone
         /\ Len(run[r].results) > 0 /\ Len(run[q].results) > 0
         /\ NoBatchFailed(run[r]) /\ NoBatchFailed(run[q])) =>
            \/ catalog = Range(run[r].results)
            \/ catalog = Range(run[q].results)

(***************************************************************************)
(* Properties of the reported counts                                       *)
(***************************************************************************)
\* the records of run s in a collection
RecordsOf(s, cat) == {d \in cat : d.inst = s.inst}

\* C35: the successCount of a run that completed with no other run in
\* progress is the number of its records in the catalog at its completion,
\* whether batch inserts failed or not
C35_CountIsPersisted ==
    \A r \in RunIds :
        (run[r].pc = "resolved" /\ run[r].alone) =>
            run[r].successCount = Cardinality(RecordsOf(run[r], run[r].catAtEnd))

(***************************************************************************)
(* Properties of the acknowledgement                                       *)
(***************************************************************************)
\* C36: the callback acknowledges a message only when its handler has run
\* the job through the pipeline to completion: the run it started has read
\* the whole file and is resolved, and its summary is stored
C36_AckedOnlyAfterRun ==
    [][\A k \in DOMAIN msgs :
          (msgs[k].acks = 0 /\ msgs'[k].acks = 1) =>
              /\ msgs[k].cb = "stored"
              /\ run[msgs[k].r].pc = "resolved"
              /\ run[msgs[k].r].pos = Len(run[msgs[k].r].file)]_vars

(***************************************************************************)
(* Properties of the destruction of the module                             *)
(***************************************************************************)
\* onModuleDestroy has returned
ModuleDestroyed(u) == call[u].kind = "destroy" /\ call[u].pc = "returned"

\* C37: the steps of closeConnection set no reconnect timer, and once
\* onModuleDestroy has returned no connection is opened and isConnected is
\* and stays false
C37_StaysDisconnected ==
    [][/\ \A u \in CallIds :
             (call'[u].kind = "destroy" /\ call'[u] # call[u]) => timers' = timers
       /\ (\E u \in CallIds : ModuleDestroyed(u)) =>
             /\ ~isConnected /\ ~isConnected'
             /\ connCount' = connCount]_vars

(***************************************************************************)
(* Properties of the queries after an import                               *)
(***************************************************************************)
\* C38: a query that is answered when an import run has completed and no run
\* is in progress returns what the query yields on the catalog as it is, not
\* a result cached before the import
C38_FreshAfterImport ==
    [][(/\ response' # response
        /\ NoRunActive
        /\ \E r \in RunIds : run[r].pc = "resolved" /\ Len(run[r].results) > 0) =>
            response'.result = Query(response'.page, response'.limit)]_vars

(***************************************************************************)
(* Properties of the staged file                                           *)
(***************************************************************************)
\* C39: when processCSVFromUpload has staged the payload, was refused by the
\* publish and ran the pipeline itself, the staged file is gone once the call
\* has returned or thrown
C39_StagedFileRemoved ==
    \A u \in UploadIds :
        (/\ call[u].kind = "upload"
         /\ call[u].staged /\ call[u].ranSync
         /\ call[u].pc \in {"returned", "thrown"}) =>
            call[u].path \notin fsFiles
====
